---- MODULE Spec2Model ----
(***************************************************************************)
(* Connect4EngineRust: the bitboard (src/src/board.rs), the transposition  *)
(* table (src/src/transpositiontable.rs) and the solver                    *)
(* (src/src/strategy.rs).                                                  *)
(*                                                                         *)
(* A Position (u64) is the set of the indices of its 1 bits, so that       *)
(* & | ^ are set operations, shifts move indices and drop those that       *)
(* leave 0..63, and + adds the eight bytes with their carries.             *)
(***************************************************************************)
EXTENDS Integers, Sequences, FiniteSets, TLC

\* ------------------------------------------------------------- u64 words
\* Number of bits of a Position (pub type Position = u64).
BITS == 64

BitAnd(p, q) == p \cap q
BitOr(p, q) == p \cup q
BitXor(p, q) == (p \ q) \cup (q \ p)

\* p << n on u64: bits shifted past bit 63 are lost.
Shl(p, n) == {i + n : i \in {j \in p : j + n < BITS}}

\* p >> n on u64.
Shr(p, n) == {i - n : i \in {j \in p : j >= n}}

\* The value of byte n of p (bits 8n .. 8n+7).
Byte(p, n) ==
    (IF 8 * n \in p THEN 1 ELSE 0) + (IF 8 * n + 1 \in p THEN 2 ELSE 0)
      + (IF 8 * n + 2 \in p THEN 4 ELSE 0) + (IF 8 * n + 3 \in p THEN 8 ELSE 0)
      + (IF 8 * n + 4 \in p THEN 16 ELSE 0) + (IF 8 * n + 5 \in p THEN 32 ELSE 0)
      + (IF 8 * n + 6 \in p THEN 64 ELSE 0) + (IF 8 * n + 7 \in p THEN 128 ELSE 0)

\* the carry of the byte below; the carry out of byte 7 is lost.
Add(p, q) ==
    LET s0 == Byte(p, 0) + Byte(q, 0)
        s1 == Byte(p, 1) + Byte(q, 1) + s0 \div 256
        s2 == Byte(p, 2) + Byte(q, 2) + s1 \div 256
        s3 == Byte(p, 3) + Byte(q, 3) + s2 \div 256
        s4 == Byte(p, 4) + Byte(q, 4) + s3 \div 256
        s5 == Byte(p, 5) + Byte(q, 5) + s4 \div 256
        s6 == Byte(p, 6) + Byte(q, 6) + s5 \div 256
        s7 == Byte(p, 7) + Byte(q, 7) + s6 \div 256
        sum == <<s0, s1, s2, s3, s4, s5, s6, s7>>
    IN  {i \in 0 .. (BITS - 1) : (sum[i \div 8 + 1] \div (2 ^ (i % 8))) % 2 = 1}

\* p.wrapping_sub(1): the lowest 1 bit is cleared and the bits below it set;
\* 0 wraps to all ones.
WrappingSubOne(p) ==
    IF p = {} THEN 0 .. (BITS - 1)
    ELSE LET low == CHOOSE i \in p : \A j \in p : i <= j
         IN  (p \ {low}) \cup (0 .. (low - 1))

\* p.trailing_zeros(): 64 for the zero word.
TrailingZeros(p) == IF p = {} THEN BITS ELSE CHOOSE i \in p : \A j \in p : i <= j

\* p.count_ones()
CountOnes(p) == Cardinality(p)

\* ------------------------------------------------------------- board.rs
HEIGHT == 6
WIDTH == 7
SIZE == WIDTH * HEIGHT
COUNTS_PER_COL == 7

\* 0b0111111 repeated for the seven columns.
PLAYABLE_REGION == {i \in 0 .. 48 : i % 7 <= 5}
\* 0b0000001 repeated for the seven columns.
BOTTOM_ROW_MASK == {i \in 0 .. 48 : i % 7 = 0}
\* 0b0100000 repeated for the seven columns.
TOP_ROW_MASK == {i \in 0 .. 48 : i % 7 = 5}
\* (1 << HEIGHT) - 1
COLUMN_MASK == 0 .. (HEIGHT - 1)
DIRECTION == <<1, COUNTS_PER_COL - 1, COUNTS_PER_COL, COUNTS_PER_COL + 1>>

\* Board::new()
NewBoard == [board |-> {}, total_board |-> {}]

moves_played(b) == CountOnes(b.total_board)

col_is_occupied(board, col) ==
    LET col_mask == Shl(COLUMN_MASK, col * COUNTS_PER_COL)
        top_bit == BitAnd(TOP_ROW_MASK, col_mask)
    IN  BitAnd(board, top_bit) # {}

\* A variant of can_add that does not look at the top cell of the column.
can_add_any_height(b, col) == col < WIDTH

can_add(b, col) == col < WIDTH /\ ~col_is_occupied(b.total_board, col)

get_height(b, col) ==
    LET col_mask == Shl(COLUMN_MASK, col * COUNTS_PER_COL)
    IN  CountOnes(BitAnd(col_mask, b.total_board))

\* A variant of col_to_pos that strides the columns by HEIGHT.
col_to_pos_height_stride(possible, col) ==
    BitAnd(possible, Shl(COLUMN_MASK, col * HEIGHT))

col_to_pos(possible, col) ==
    BitAnd(possible, Shl(COLUMN_MASK, col * COUNTS_PER_COL))

pos_to_col(p) == TrailingZeros(p) \div COUNTS_PER_COL

valid_play_pos(pos) == pos # {}

\* A variant of possible_moves that keeps the bits above the top row.
possible_moves_unmasked(b) == Add(b.total_board, BOTTOM_ROW_MASK)

possible_moves(b) == BitAnd(Add(b.total_board, BOTTOM_ROW_MASK), PLAYABLE_REGION)

\* A variant of winning_moves that looks for the empty cell at the two ends
\* of a line only.
winning_moves_at_ends(p, possible) ==
    LET vertical == BitAnd(BitAnd(Shl(p, 1), Shl(p, 2)), Shl(p, 3))
        InDir(dir) ==
            LET pp == BitAnd(Shl(p, dir), Shl(p, 2 * dir))
                pq == Shr(pp, 3 * dir)
            IN  BitAnd(pp, Shl(p, 3 * dir)) \cup BitAnd(pq, Shr(p, 3 * dir))
        win_moves == vertical \cup InDir(DIRECTION[2]) \cup InDir(DIRECTION[3])
                       \cup InDir(DIRECTION[4])
    IN  BitAnd(win_moves, possible)

winning_moves(p, possible) ==
    LET vertical == BitAnd(BitAnd(Shl(p, 1), Shl(p, 2)), Shl(p, 3))
        InDir(dir) ==
            LET pp == BitAnd(Shl(p, dir), Shl(p, 2 * dir))
                pq == Shr(pp, 3 * dir)
            IN  BitAnd(pp, Shl(p, 3 * dir)) \cup BitAnd(pp, Shr(p, dir))
                  \cup BitAnd(pq, Shr(p, 3 * dir)) \cup BitAnd(pq, Shl(p, dir))
        win_moves == vertical \cup InDir(DIRECTION[2]) \cup InDir(DIRECTION[3])
                       \cup InDir(DIRECTION[4])
    IN  BitAnd(win_moves, possible)

opp_win_moves(b, possible) == winning_moves(b.board, possible)

\* A variant of player_win_moves that looks at the stones of the opponent.
player_win_moves_of_opponent(b, possible) == winning_moves(b.board, possible)

player_win_moves(b, possible) ==
    winning_moves(BitXor(b.board, b.total_board), possible)

at_most_one_bit_set(p) == BitAnd(p, WrappingSubOne(p)) = {}

play(b, pos) ==
    LET flipped == BitXor(b.board, b.total_board)
        total == BitOr(b.total_board, pos)
    IN  [board |-> BitOr(flipped, pos), total_board |-> total]

\* A variant of revert that leaves out the last xor.
revert_no_flip(b, pos) ==
    [board |-> BitXor(b.board, pos), total_board |-> BitXor(b.total_board, pos)]

revert(b, pos) ==
    LET total == BitXor(b.total_board, pos)
        mine == BitXor(b.board, pos)
    IN  [board |-> BitXor(mine, total), total_board |-> total]

\* Board::add: the result and the board afterwards.
add(b, col) ==
    IF can_add(b, col)
    THEN [ok |-> TRUE, b |-> play(b, col_to_pos(possible_moves(b), col))]
    ELSE [ok |-> FALSE, b |-> b]

\* A variant of is_win that is content with three stones in a line.
is_win_of_three(bitboard) ==
    \E d \in 1 .. 4 :
        LET dir == DIRECTION[d]
            bb == BitAnd(bitboard, Shr(bitboard, dir))
        IN  BitAnd(bb, Shr(bb, dir)) # {}

is_win(bitboard) ==
    \E d \in 1 .. 4 :
        LET dir == DIRECTION[d]
            bb == BitAnd(bitboard, Shr(bitboard, dir))
        IN  BitAnd(bb, Shr(bb, 2 * dir)) # {}

get_curr_player_pos(b) == BitXor(b.total_board, b.board)

is_filled(b) == b.total_board = PLAYABLE_REGION

has_winner(b) == is_win(b.board)

is_first_player_win(b) == has_winner(b) /\ moves_played(b) % 2 = 1

is_second_player_win(b) == has_winner(b) /\ moves_played(b) % 2 = 0

\* A variant of is_game_over that leaves out the full board.
is_game_over_by_win(b) == is_first_player_win(b) \/ is_second_player_win(b)

is_game_over(b) == is_first_player_win(b) \/ is_second_player_win(b) \/ is_filled(b)

\* A variant of the key that ors the two words.
key_by_or(b) == BitOr(b.total_board, b.board)

get_unique_position_key(b) == Add(b.total_board, b.board)

\* A variant of to_digit that counts the digits from the character 1.
to_digit_from_one(c) ==
    CASE c = "1" -> 0 [] c = "2" -> 1 [] c = "3" -> 2 [] c = "4" -> 3
      [] c = "5" -> 4 [] c = "6" -> 5 [] c = "7" -> 6 [] c = "8" -> 7
      [] c = "9" -> 8 [] OTHER -> -1

\* Board::new_position: the characters of the string are played in order.
\* c.to_digit(10) of a character; -1 stands for None.
to_digit(c) ==
    CASE c = "0" -> 0 [] c = "1" -> 1 [] c = "2" -> 2 [] c = "3" -> 3
      [] c = "4" -> 4 [] c = "5" -> 5 [] c = "6" -> 6 [] c = "7" -> 7
      [] c = "8" -> 8 [] c = "9" -> 9 [] OTHER -> -1

RECURSIVE new_position_from(_, _, _)
new_position_from(position, i, board) ==
    IF i > Len(position) THEN [ok |-> TRUE, b |-> board, index |-> i - 1]
    ELSE LET mv == to_digit(position[i])
         IN  IF mv = -1 THEN [ok |-> FALSE, b |-> board, index |-> i - 1]
             ELSE IF mv - 1 < 0 THEN [ok |-> FALSE, b |-> board, index |-> i - 1]
             ELSE LET r == add(board, mv - 1)
                  IN  IF ~r.ok THEN [ok |-> FALSE, b |-> board, index |-> i - 1]
                      ELSE new_position_from(position, i + 1, r.b)

new_position(position) == new_position_from(position, 1, NewBoard)

\* ------------------------------------------------- board.rs, moves.rs:
\* the revision of these files that strategy.rs calls is not in the
\* source tree; the next definitions follow the written specification.

\* A variant of non_losing_moves that keeps the moves below a winning cell
\* of the opponent.
non_losing_moves_keep_below(b, possible) ==
    LET opp_wins == winning_moves(b.board, BitXor(PLAYABLE_REGION, b.total_board))
        forced == BitAnd(possible, opp_wins)
    IN  IF forced # {}
        THEN IF ~at_most_one_bit_set(forced) THEN {}
             ELSE forced
        ELSE possible

\* A variant of non_losing_moves that gives every playable cell where no
\* move avoids the loss.
non_losing_moves_or_possible(b, possible) ==
    LET opp_wins == winning_moves(b.board, BitXor(PLAYABLE_REGION, b.total_board))
        forced == BitAnd(possible, opp_wins)
        below == Shr(opp_wins, 1)
        kept == IF forced # {}
                THEN IF ~at_most_one_bit_set(forced) THEN {}
                     ELSE forced \ below
                ELSE possible \ below
    IN  IF kept = {} THEN possible ELSE kept

\* Board::non_losing_moves (specification 4.1).
non_losing_moves(b, possible) ==
    LET opp_wins == winning_moves(b.board, BitXor(PLAYABLE_REGION, b.total_board))
        forced == BitAnd(possible, opp_wins)
        below == Shr(opp_wins, 1)
    IN  IF forced # {}
        THEN IF ~at_most_one_bit_set(forced) THEN {}
             ELSE forced \ below
        ELSE possible \ below

\* Board::move_score (specification 4.1, move_order_score).
move_score(b, mv) ==
    LET player == BitOr(get_curr_player_pos(b), mv)
        not_taken == PLAYABLE_REGION \ BitOr(b.total_board, mv)
    IN  CountOnes(winning_moves(player, not_taken))

\* moves::EMPTY_MOVE: the move that names no column.
EMPTY_MOVE == 255

\* moves::DEFAULT_ORDER
DEFAULT_ORDER == <<3, 2, 4, 1, 5, 0, 6>>

\* Moves::new(mask) and its iteration: the (move bit, column) pairs of the
\* columns of DEFAULT_ORDER that have a bit in the mask, in that order.
RECURSIVE MovesFrom(_, _)
MovesFrom(mask, i) ==
    IF i > Len(DEFAULT_ORDER) THEN <<>>
    ELSE LET c == DEFAULT_ORDER[i]
             m == col_to_pos(mask, c)
         IN  IF m # {} THEN <<[mv |-> m, col |-> c]>> \o MovesFrom(mask, i + 1)
             ELSE MovesFrom(mask, i + 1)

\* A variant of Moves that goes through the columns from left to right.
Moves_left_to_right(mask) ==
    LET cols == {c \in 0 .. (WIDTH - 1) : col_to_pos(mask, c) # {}}
        nth(i) == CHOOSE c \in cols : Cardinality({d \in cols : d < c}) = i - 1
    IN  [i \in 1 .. Cardinality(cols) |-> [mv |-> col_to_pos(mask, nth(i)), col |-> nth(i)]]

Moves(mask) == MovesFrom(mask, 1)

\* ------------------------------------------------------- scoredmoves.rs
\* ScoredMoves::add: move_scores[0 .. size-1] as a sequence; the new triple
\* goes below every entry that is not smaller.
RECURSIVE InsertAt(_, _, _)
InsertAt(ms, i, e) ==
    IF i > 0 /\ ms[i].score < e.score
    THEN InsertAt(ms, i - 1, e)
    ELSE SubSeq(ms, 1, i) \o <<e>> \o SubSeq(ms, i + 1, Len(ms))

\* A variant of ScoredMoves_add that puts the new triple below the entries
\* that are greater only, above those of the same score.
ScoredMoves_add_above_equal(ms, mv, col, score) ==
    LET below == {i \in 1 .. Len(ms) : ms[i].score > score}
        n == IF below = {} THEN 0 ELSE CHOOSE i \in below : \A j \in below : j <= i
    IN  SubSeq(ms, 1, n) \o <<[mv |-> mv, col |-> col, score |-> score]>>
          \o SubSeq(ms, n + 1, Len(ms))

ScoredMoves_add(ms, mv, col, score) ==
    InsertAt(ms, Len(ms), [mv |-> mv, col |-> col, score |-> score])

\* Iterator::next of ScoredMoves from ptr on, to the end: the (move, col)
\* pairs it returns.
RECURSIVE ScoredMoves_next(_, _)
ScoredMoves_next(ms, ptr) ==
    IF ptr < Len(ms)
    THEN <<[mv |-> ms[ptr + 1].mv, col |-> ms[ptr + 1].col]>> \o ScoredMoves_next(ms, ptr + 1)
    ELSE <<>>

\* ------------------------------------------------ transpositiontable.rs
MAX_TABLE_SIZE == 8388593
STORED_KEY_BITS == 32
STORED_KEY_BIT_MASK == 0 .. (STORED_KEY_BITS - 1)
\* u32::MAX
EMPTY_KEY == 0 .. 31
FLAG_UPPER == 0
FLAG_LOWER == 1
FLAG_EXACT == 2
I8_MIN == -128
U8_MAX == 255

Entry_new(board_key, eval, flag, depth, mv) ==
    [stored_key |-> BitAnd(board_key, STORED_KEY_BIT_MASK), eval |-> eval,
     flag |-> flag, depth |-> depth, mv |-> mv]

Entry_default == Entry_new(EMPTY_KEY, I8_MIN, FLAG_UPPER, U8_MAX, EMPTY_MOVE)

\* A variant of Entry_clear that leaves the key.
Entry_clear_keeps_key(e) == e

Entry_clear(e) == [e EXCEPT !.stored_key = EMPTY_KEY]

\* TranspositionTable::new(): every bucket holds two default entries.  The
\* table is the function from the buckets that were written to their pair.
NewTable == << >>

Bucket(table, loc) ==
    IF loc \in DOMAIN table THEN table[loc] ELSE <<Entry_default, Entry_default>>

\* key % MAX_TABLE_SIZE, byte by byte from the highest byte down.
location(key) ==
    LET r7 == Byte(key, 7) % MAX_TABLE_SIZE
        r6 == (r7 * 256 + Byte(key, 6)) % MAX_TABLE_SIZE
        r5 == (r6 * 256 + Byte(key, 5)) % MAX_TABLE_SIZE
        r4 == (r5 * 256 + Byte(key, 4)) % MAX_TABLE_SIZE
        r3 == (r4 * 256 + Byte(key, 3)) % MAX_TABLE_SIZE
        r2 == (r3 * 256 + Byte(key, 2)) % MAX_TABLE_SIZE
        r1 == (r2 * 256 + Byte(key, 1)) % MAX_TABLE_SIZE
    IN  (r1 * 256 + Byte(key, 0)) % MAX_TABLE_SIZE

\* A variant of insert_with_key that also replaces an entry of the same
\* depth.
insert_with_key_or_equal(table, key, eval, flag, depth, mv) ==
    LET entry == Entry_new(key, eval, flag, depth, mv)
        loc == location(key)
        old == IF loc \in DOMAIN table THEN table[loc] ELSE <<Entry_default, Entry_default>>
        slot1 == IF depth <= old[2].depth THEN entry ELSE old[2]
    IN  [l \in DOMAIN table \cup {loc} |->
            IF l = loc THEN <<entry, slot1>> ELSE table[l]]

\* A variant of insert_with_key that writes both entries whatever the depth.
insert_with_key_both(table, key, eval, flag, depth, mv) ==
    LET entry == Entry_new(key, eval, flag, depth, mv)
        loc == location(key)
    IN  [l \in DOMAIN table \cup {loc} |->
            IF l = loc THEN <<entry, entry>> ELSE table[l]]

insert_with_key(table, key, eval, flag, depth, mv) ==
    LET entry == Entry_new(key, eval, flag, depth, mv)
        loc == location(key)
        old == Bucket(table, loc)
        slot1 == IF depth < old[2].depth THEN entry ELSE old[2]
    IN  [l \in DOMAIN table \cup {loc} |->
            IF l = loc THEN <<entry, slot1>> ELSE table[l]]

\* A variant of entry_of that looks at the second entry first.
entry_of_second_first(pair, new_key) ==
    IF pair[2].stored_key = new_key THEN [found |-> TRUE, entry |-> pair[2]]
    ELSE IF pair[1].stored_key = new_key THEN [found |-> TRUE, entry |-> pair[1]]
    ELSE [found |-> FALSE, entry |-> Entry_default]

\* Option<&Entry>: found tells Some from None.
entry_of(pair, new_key) ==
    IF pair[1].stored_key = new_key THEN [found |-> TRUE, entry |-> pair[1]]
    ELSE IF pair[2].stored_key = new_key THEN [found |-> TRUE, entry |-> pair[2]]
    ELSE [found |-> FALSE, entry |-> Entry_default]

get_entry_with_key(table, key) ==
    entry_of(Bucket(table, location(key)), BitAnd(key, STORED_KEY_BIT_MASK))

exact_entry_of(pair, new_key) ==
    IF pair[1].stored_key = new_key /\ pair[1].flag = FLAG_EXACT
    THEN [found |-> TRUE, entry |-> pair[1]]
    ELSE IF pair[2].stored_key = new_key /\ pair[2].flag = FLAG_EXACT
    THEN [found |-> TRUE, entry |-> pair[2]]
    ELSE [found |-> FALSE, entry |-> Entry_default]

get_exact_entry_with_key(table, key) ==
    exact_entry_of(Bucket(table, location(key)), BitAnd(key, STORED_KEY_BIT_MASK))

get_exact_entry(table, b) ==
    get_exact_entry_with_key(table, get_unique_position_key(b))

\* A variant of TranspositionTable_clear that clears the first entry of
\* each bucket only.
TranspositionTable_clear_first(table) ==
    [l \in DOMAIN table |-> <<Entry_clear(table[l][1]), table[l][2]>>]

TranspositionTable_clear(table) ==
    [l \in DOMAIN table |-> <<Entry_clear(table[l][1]), Entry_clear(table[l][2])>>]

\* ---------------------------------------------------------- strategy.rs
\* The Explorer is the record [table, nodes, ...]: its transposition table
\* and nodes_explored, and the history of what it did: the entries it
\* stored (stored), the calls of search with what they returned (searched),
\* the nodes whose moves it ordered (expanded) and the searches started by
\* evaluate_board (probes), each since the start of the last call of
\* evaluate or solve.  Every operation returns the Explorer it leaves.
MAX_SCORE == 2 + SIZE
TIE_SCORE == 0
REFUTATION_SCORE == 16

Max(x, y) == IF x >= y THEN x ELSE y
Min(x, y) == IF x <= y THEN x ELSE y

NewExplorer ==
    [table |-> NewTable, nodes |-> 0, stored |-> {}, searched |-> {},
     expanded |-> {}, probes |-> <<>>]

\* A variant of win_eval that counts from SIZE.
win_eval_from_size(played) == SIZE - played

win_eval(played) == MAX_SCORE - played

\* A variant of next_moves_from that scores the refutation as any other
\* move.
RECURSIVE next_moves_by_score(_, _, _, _)
next_moves_by_score(b, mvs, i, refutation) ==
    IF i = 0 THEN <<>>
    ELSE ScoredMoves_add(next_moves_by_score(b, mvs, i - 1, refutation),
                         mvs[i].mv, mvs[i].col, move_score(b, mvs[i].mv))

\* The ordered moves of a node: the refutation first, the others by f.
RECURSIVE next_moves_from(_, _, _, _)
next_moves_from(b, mvs, i, refutation) ==
    IF i = 0 THEN <<>>
    ELSE LET m == mvs[i].mv
             c == mvs[i].col
             sofar == next_moves_from(b, mvs, i - 1, refutation)
         IN  IF refutation = c
             THEN ScoredMoves_add(sofar, m, c, REFUTATION_SCORE)
             ELSE ScoredMoves_add(sofar, m, c, move_score(b, m))

RECURSIVE search(_, _, _, _)
RECURSIVE search_children(_, _, _, _, _, _, _, _, _)

\* The loop over next_moves from its i-th element on, then the insertion.
search_children(boardcpy, next_moves, i, a, b, final_eval, final_mv, node, ex) ==
    IF i > Len(next_moves)
    THEN LET flag == IF a > node.a_orig THEN FLAG_EXACT ELSE FLAG_UPPER
         IN  [val |-> final_eval,
              ex |-> [ex EXCEPT !.table = insert_with_key(@, node.board_key, final_eval,
                                             flag, node.depth, final_mv),
                                !.stored = @ \cup {[b |-> boardcpy, eval |-> final_eval,
                                                    flag |-> flag, depth |-> node.depth,
                                                    mv |-> final_mv]}]]
    ELSE LET m == next_moves[i].mv
             c == next_moves[i].col
             child == play(boardcpy, m)
             first == search(child, -b, -a,
                             [ex EXCEPT !.expanded = @ \cup
                                 {[b |-> boardcpy, a |-> a, b2 |-> b,
                                   refutation |-> node.refutation,
                                   cols |-> [k \in 1 .. Len(next_moves) |->
                                                next_moves[k].col]]}])
             probe == search(child, -a - 1, -a, ex)
             again == search(child, -b, probe.val, probe.ex)
             r == IF i = 1 THEN first
                  ELSE IF a < -probe.val /\ -probe.val < b THEN again
                  ELSE probe
             val == -r.val
         IN  IF val >= b
             THEN [val |-> val,
                   ex |-> [r.ex EXCEPT !.table = insert_with_key(@, node.board_key, val,
                                                  FLAG_LOWER, node.depth, c),
                                       !.stored = @ \cup {[b |-> boardcpy, eval |-> val,
                                                           flag |-> FLAG_LOWER,
                                                           depth |-> node.depth,
                                                           mv |-> c]}]]
             ELSE IF val > final_eval
             THEN search_children(revert(child, m), next_moves, i + 1, Max(val, a), b,
                                  val, c, node, r.ex)
             ELSE search_children(revert(child, m), next_moves, i + 1, a, b,
                                  final_eval, final_mv, node, r.ex)

\* A variant of search_entry that takes the lowest score for a_orig.
search_entry_orig_lowest(board, a1, b1, ex, non_losing, board_key, hit) ==
    LET flag == hit.entry.flag
        val == hit.entry.eval
        b2 == IF hit.found /\ flag = FLAG_UPPER THEN Min(b1, val) ELSE b1
        a2 == IF hit.found /\ flag = FLAG_LOWER THEN Max(a1, val) ELSE a1
        refutation == IF hit.found /\ flag = FLAG_LOWER THEN hit.entry.mv ELSE EMPTY_MOVE
        mvs == Moves(non_losing)
    IN  IF hit.found /\ flag # FLAG_UPPER /\ flag # FLAG_LOWER
        THEN [val |-> val, ex |-> ex]
        ELSE IF hit.found /\ a2 >= b2 THEN [val |-> val, ex |-> ex]
        ELSE search_children(board, next_moves_from(board, mvs, Len(mvs), refutation),
                             1, a2, b2, -MAX_SCORE, EMPTY_MOVE,
                             [board_key |-> board_key, depth |-> moves_played(board),
                              a_orig |-> -MAX_SCORE, refutation |-> refutation], ex)

\* A variant of search_entry that takes an UPPER entry for a LOWER one and
\* a LOWER entry for an UPPER one.
search_entry_flags_swapped(board, a1, b1, ex, non_losing, board_key, hit) ==
    LET flag == hit.entry.flag
        val == hit.entry.eval
        b2 == IF hit.found /\ flag = FLAG_LOWER THEN Min(b1, val) ELSE b1
        a2 == IF hit.found /\ flag = FLAG_UPPER THEN Max(a1, val) ELSE a1
        refutation == IF hit.found /\ flag = FLAG_UPPER THEN hit.entry.mv ELSE EMPTY_MOVE
        mvs == Moves(non_losing)
    IN  IF hit.found /\ flag # FLAG_UPPER /\ flag # FLAG_LOWER
        THEN [val |-> val, ex |-> ex]
        ELSE IF hit.found /\ a2 >= b2 THEN [val |-> val, ex |-> ex]
        ELSE search_children(board, next_moves_from(board, mvs, Len(mvs), refutation),
                             1, a2, b2, -MAX_SCORE, EMPTY_MOVE,
                             [board_key |-> board_key, depth |-> moves_played(board),
                              a_orig |-> a2, refutation |-> refutation], ex)

\* Explorer::search from the lookup of the table on; hit is the entry found.
search_entry(board, a1, b1, ex, non_losing, board_key, hit) ==
    LET flag == hit.entry.flag
        val == hit.entry.eval
        b2 == IF hit.found /\ flag = FLAG_UPPER THEN Min(b1, val) ELSE b1
        a2 == IF hit.found /\ flag = FLAG_LOWER THEN Max(a1, val) ELSE a1
        refutation == IF hit.found /\ flag = FLAG_LOWER THEN hit.entry.mv ELSE EMPTY_MOVE
        mvs == Moves(non_losing)
    IN  IF hit.found /\ flag # FLAG_UPPER /\ flag # FLAG_LOWER
        THEN [val |-> val, ex |-> ex]
        ELSE IF hit.found /\ a2 >= b2 THEN [val |-> val, ex |-> ex]
        ELSE search_children(board, next_moves_from(board, mvs, Len(mvs), refutation),
                             1, a2, b2, -MAX_SCORE, EMPTY_MOVE,
                             [board_key |-> board_key, depth |-> moves_played(board),
                              a_orig |-> a2, refutation |-> refutation], ex)

\* The return of search: the call and what it returned join the history.
search_return(board, a0, b0, r) ==
    [val |-> r.val,
     ex |-> [r.ex EXCEPT !.searched = @ \cup
                {[b |-> board, a |-> a0, b2 |-> b0, val |-> r.val]}]]

\* Explorer::search from its first line to its return.
search_body(board, a0, b0, ex0) ==
    LET ex == [ex0 EXCEPT !.nodes = @ + 1]
        possible == possible_moves(board)
        winning == player_win_moves(board, possible)
        played == moves_played(board)
        board_key == get_unique_position_key(board)
        non_losing == non_losing_moves(board, possible)
        a1 == Max(a0, -win_eval(played + 3))
        b1 == Min(b0, win_eval(played + 2))
    IN  IF is_filled(board) THEN [val |-> TIE_SCORE, ex |-> ex]
        ELSE IF winning # {} THEN [val |-> win_eval(played + 1), ex |-> ex]
        ELSE IF non_losing = {} THEN [val |-> -win_eval(played + 2), ex |-> ex]
        ELSE IF a1 >= b1 THEN [val |-> a1, ex |-> ex]
        ELSE search_entry(board, a1, b1, ex, non_losing, board_key,
                          get_entry_with_key(ex.table, board_key))

search(board, a0, b0, ex0) ==
    search_return(board, a0, b0, search_body(board, a0, b0, ex0))

\* The threshold of evaluate_board: the aspiration window is used up to
\* this number of moves played; low_sz and high_sz are its sizes.
ASPIRATION_MOVES == 15
LOW_SZ == 6
HIGH_SZ == 6
FASTEST_WIN == 7
FASTEST_LOSS == 8

\* The loop of evaluate_board, from the state (g_min, g_max, min, max).
RECURSIVE aspiration(_, _, _, _, _, _, _)

\* A variant of aspiration_bounds that keeps g_max after a fail low.
aspiration_bounds_keep_max(g_min, g_max, min, max, eval) ==
    LET asp_min == Max(min - 1, g_min - 1)
        asp_max == Min(max + 1, g_max + 1)
        low == eval <= asp_min
        g_min1 == IF low THEN g_min ELSE IF eval = asp_max THEN asp_max ELSE asp_max + 1
    IN  IF asp_min < eval /\ eval < asp_max
        THEN [returned |-> TRUE, g_min |-> g_min, g_max |-> g_max,
              min |-> min, max |-> max]
        ELSE [returned |-> g_max <= g_min1, g_min |-> g_min1, g_max |-> g_max,
              min |-> IF low THEN g_min1 ELSE g_max - HIGH_SZ,
              max |-> IF low THEN g_min1 + LOW_SZ ELSE g_max]

\* The body of the loop after its search returned eval: whether the loop
\* returns, and g_min, g_max, min and max as it leaves them.
aspiration_bounds(g_min, g_max, min, max, eval) ==
    LET asp_min == Max(min - 1, g_min - 1)
        asp_max == Min(max + 1, g_max + 1)
        low == eval <= asp_min
        g_max1 == IF ~low THEN g_max ELSE IF eval = asp_min THEN asp_min ELSE asp_min - 1
        g_min1 == IF low THEN g_min ELSE IF eval = asp_max THEN asp_max ELSE asp_max + 1
        min1 == IF low THEN g_min1 ELSE g_max1 - HIGH_SZ
        max1 == IF low THEN g_min1 + LOW_SZ ELSE g_max1
    IN  IF asp_min < eval /\ eval < asp_max
        THEN [returned |-> TRUE, g_min |-> g_min, g_max |-> g_max,
              min |-> min, max |-> max]
        ELSE [returned |-> g_max1 <= g_min1, g_min |-> g_min1, g_max |-> g_max1,
              min |-> min1, max |-> max1]

\* One iteration of the loop after its search returned r, the bounds left
\* by the iteration being n.
aspiration_next(board, reset_t_table, r, n) ==
    IF n.returned THEN r
    ELSE aspiration(board, reset_t_table, n.g_min, n.g_max, n.min, n.max, r.ex)

aspiration_step(board, reset_t_table, g_min, g_max, min, max, r) ==
    aspiration_next(board, reset_t_table, r,
                    aspiration_bounds(g_min, g_max, min, max, r.val))

\* The number of keys a table holds.
KeysHeld(t) ==
    Cardinality({<<l, i>> \in (DOMAIN t) \X {1, 2} : t[l][i].stored_key # EMPTY_KEY})

\* A variant of probe_table that never clears the table.
probe_table_kept(ex, reset_t_table) ==
    [ex EXCEPT !.probes = Append(@, [reset |-> reset_t_table,
                                     held |-> KeysHeld(ex.table),
                                     keys |-> KeysHeld(ex.table)])]

\* if reset_t_table { clear() } before a search of evaluate_board; the
\* history gains the search with the number of keys the table held
\* before and holds after.
probe_table(ex, reset_t_table) ==
    LET t == IF reset_t_table THEN TranspositionTable_clear(ex.table) ELSE ex.table
    IN  [ex EXCEPT !.table = t,
                   !.probes = Append(@, [reset |-> reset_t_table,
                                         held |-> KeysHeld(ex.table),
                                         keys |-> KeysHeld(t)])]

aspiration(board, reset_t_table, g_min, g_max, min, max, ex) ==
    aspiration_step(board, reset_t_table, g_min, g_max, min, max,
                    search(board, Max(min - 1, g_min - 1), Min(max + 1, g_max + 1),
                           probe_table(ex, reset_t_table)))

\* evaluate_board's start_max and start_min for a board.
start_max_of(board) == Min(win_eval(moves_played(board) + 1), win_eval(FASTEST_WIN))
start_min_of(board) == Max(-win_eval(moves_played(board) + 2), -win_eval(FASTEST_LOSS))

evaluate_board(board, reset_t_table, ex) ==
    LET played == moves_played(board)
        start_max == start_max_of(board)
        start_min == start_min_of(board)
        ex1 == probe_table(ex, reset_t_table)
    IN  IF has_winner(board) THEN [val |-> -win_eval(played), ex |-> ex]
        ELSE IF is_filled(board) THEN [val |-> TIE_SCORE, ex |-> ex]
        ELSE IF played <= ASPIRATION_MOVES
        THEN aspiration(board, reset_t_table, start_min, start_max,
                        start_min, start_min + LOW_SZ, ex)
        ELSE search(board, start_min - 1, start_max + 1, ex1)

evaluate(board, ex) == evaluate_board(board, FALSE, ex)

\* The walk of get_pv over the exact entries: the columns pushed and the
\* board where the walk stops.
RECURSIVE pv_walk(_, _, _)

pv_step(table, board_cpy, pv, hit, r) ==
    IF hit.found /\ r.ok
    THEN pv_walk(table, r.b, Append(pv, hit.entry.mv))
    ELSE [pv |-> pv, b |-> board_cpy]

pv_entry(table, board_cpy, pv, hit) ==
    pv_step(table, board_cpy, pv, hit, add(board_cpy, hit.entry.mv))

pv_walk(table, board_cpy, pv) ==
    pv_entry(table, board_cpy, pv, get_exact_entry(table, board_cpy))

\* A variant of pv_end that pushes one column only: the winning one, else
\* the blocking one, else the lowest playable one.
pv_end_one(w, possible) ==
    LET winning == player_win_moves(w.b, possible)
        losing == opp_win_moves(w.b, possible)
    IN  IF winning # {} THEN Append(w.pv, pos_to_col(winning))
        ELSE IF losing # {} THEN Append(w.pv, pos_to_col(losing))
        ELSE IF possible # {} THEN Append(w.pv, pos_to_col(possible))
        ELSE w.pv

\* The end of get_pv, after the walk w: the winning move, the move that
\* blocks the opponent, then the lowest playable position.
pv_end(w, possible) ==
    LET winning == player_win_moves(w.b, possible)
        losing == opp_win_moves(w.b, possible)
        pv1 == IF winning # {} THEN Append(w.pv, pos_to_col(winning)) ELSE w.pv
        pv2 == IF losing # {} THEN Append(pv1, pos_to_col(losing)) ELSE pv1
    IN  IF possible # {} THEN Append(pv2, pos_to_col(possible)) ELSE pv2

pv_from(w) == pv_end(w, possible_moves(w.b))

get_pv(ex, board) == pv_from(pv_walk(ex.table, board, <<>>))

\* A variant of solve_pv that returns the last column of the variation.
solve_pv_last(board, r, pv) ==
    IF is_game_over(board)
    THEN [col |-> EMPTY_MOVE, val |-> r.val, panic |-> FALSE, ex |-> r.ex]
    ELSE IF pv # <<>>
    THEN [col |-> pv[Len(pv)], val |-> r.val, panic |-> FALSE, ex |-> r.ex]
    ELSE [col |-> EMPTY_MOVE, val |-> r.val, panic |-> TRUE, ex |-> r.ex]

\* The end of Explorer::solve, after the evaluation r and the variation pv;
\* panic tells the panic of line 82 from a return.
solve_pv(board, r, pv) ==
    IF is_game_over(board)
    THEN [col |-> EMPTY_MOVE, val |-> r.val, panic |-> FALSE, ex |-> r.ex]
    ELSE IF pv # <<>>
    THEN [col |-> pv[1], val |-> r.val, panic |-> FALSE, ex |-> r.ex]
    ELSE [col |-> EMPTY_MOVE, val |-> r.val, panic |-> TRUE, ex |-> r.ex]

solve_eval(board, r) == solve_pv(board, r, get_pv(r.ex, board))

solve(board, ex) == solve_eval(board, evaluate_board(board, TRUE, ex))

\* ------------------------------------------------------ the test lines
\* tests/test_strategy.rs, test_endgame_1
LINE_ENDGAME_1 ==
    <<"4", "4", "4", "4", "4", "7", "5", "2", "2", "2", "2", "4", "3", "6",
      "6", "5", "6", "5", "6", "6", "2", "6", "3", "3", "7", "5", "5", "1",
      "5", "1", "2", "7", "1", "7", "1", "7", "7", "1", "3", "1", "3">>

\* tests/test_strategy.rs, test_endgame_2; tests/test_board.rs, test_board_revert
LINE_ENDGAME_2 ==
    <<"1", "6", "3", "5", "7", "1", "5", "7", "4", "3", "7", "4", "6", "1",
      "3", "5", "5", "3", "1", "6", "4", "5", "7", "4", "6", "5", "7", "2",
      "2">>

\* tests/test_strategy.rs, test_endgame_3
LINE_ENDGAME_3 ==
    <<"6", "6", "2", "2", "2", "2", "5", "7", "6", "3", "4", "3", "6", "5",
      "1", "6", "4", "2", "7", "1", "2", "1", "5", "7">>

\* tests/test_strategy.rs, test_endgame_4
LINE_ENDGAME_4 ==
    <<"2", "2", "5", "2", "5", "7", "6", "2", "5", "3", "4", "6", "2", "2",
      "4", "4", "1", "1", "1", "5", "6", "3", "3", "6", "5", "3", "4", "3",
      "6", "7", "1", "3", "5", "1", "4", "4", "1">>

\* tests/test_strategy.rs, test_endgame_5
LINE_ENDGAME_5 ==
    <<"5", "2", "6", "7", "7", "6", "7", "5", "1", "6", "4", "3", "2", "1",
      "4", "7", "2", "4", "1", "1", "3", "3", "1", "7", "5", "2", "4", "5",
      "4">>

\* tests/test_strategy.rs, test_endgame_6
LINE_ENDGAME_6 ==
    <<"6", "5", "2", "1", "4", "6", "7", "3", "5", "5", "6", "1", "5", "5",
      "7", "3", "1", "5", "6", "6", "3", "1", "6", "3", "2", "7", "3", "7",
      "3", "2", "2", "1", "4", "1", "7">>

\* tests/test_strategy.rs, test_one_move_win
LINE_ONE_MOVE_WIN == <<"1", "4", "1", "4", "1", "4">>

\* tests/test_board.rs, test_filled: the columns in turn, HEIGHT times.
LINE_FILLED ==
    [i \in 1 .. (WIDTH * HEIGHT) |->
        <<"1", "2", "3", "4", "5", "6", "7">>[((i - 1) % WIDTH) + 1]]

\* The line of test_endgame_5 with the moves solve returns played to the end:
\* the board fills up without a winner.
LINE_DRAW ==
    <<"5", "2", "6", "7", "7", "6", "7", "5", "1", "6", "4", "3", "2", "1",
      "4", "7", "2", "4", "1", "1", "3", "3", "1", "7", "5", "2", "4", "5",
      "4", "3", "2", "3", "3", "6", "6", "4", "5", "5", "2", "6", "7", "1">>

\* Five moves after which the side to move faces two winning cells.
LINE_DOUBLE_THREAT == <<"4", "4", "5", "5", "3">>

\* The board Board::new_position builds from the first k characters.
Position(line, k) == new_position(SubSeq(line, 1, k)).b

\* ---------------------------------------------------- the state machine
\* board:    the Board the operations act on
\* other:    a second Board, for statements about two positions
\* stack:    the moves given to play() that were not yet reverted, each
\*           with the board it was played on
\* last:     the last operation, its arguments and what it returned
\* explorer: the Explorer, [table, nodes]
\* placed:   the number of stones put on the board so far
\* adds, calls: the numbers of add calls and of Explorer calls made
\* text:     the string given to Board::new_position
\* scored_moves: a ScoredMoves, move_scores[0 .. size-1]
\* added:    the triples given to scored_moves.add, in the order of the calls
VARIABLES board, other, stack, last, explorer, placed, adds, calls,
          text, scored_moves, added

vars == <<board, other, stack, last, explorer, placed, adds, calls,
          text, scored_moves, added>>

\* The bounds of the model.
MaxCol == 7
MaxAdds == 1
MaxStack == 2

NoCall ==
    [op |-> "none", col |-> 0, ok |-> TRUE, before |-> NewBoard,
     expect |-> NewBoard, val |-> 0, panic |-> FALSE, searched |-> 0,
     wrote |-> FALSE]

\* The positions the board tests start from (tests/test_board.rs): the
\* empty board, the board of test_filled one stone before it is full, and
\* the position of test_board_revert.
BoardStarts ==
    {<<LINE_FILLED, 0>>, <<LINE_FILLED, 41>>, <<LINE_ENDGAME_2, 29>>}

InitFrom(starts) ==
    /\ \E s \in starts :
         LET r == new_position(SubSeq(s[1], 1, s[2]))
         IN  /\ r.ok
             /\ board = r.b
             /\ placed = r.index
    /\ stack = <<>>
    /\ last = NoCall
    /\ explorer = NewExplorer
    /\ adds = 0
    /\ calls = 0
    /\ text = <<>>
    /\ scored_moves = <<>>
    /\ added = <<>>

Init ==
    /\ InitFrom(BoardStarts)
    /\ other = NewBoard

\* board.add(col), for any u8 up to MaxCol.
AddCol(col) ==
    /\ stack = <<>>
    /\ adds < MaxAdds
    /\ LET r == add(board, col)
       IN  /\ board' = r.b
           /\ placed' = IF r.ok THEN placed + 1 ELSE placed
           /\ last' = [NoCall EXCEPT !.op = "add", !.col = col, !.ok = r.ok,
                                     !.before = board]
    /\ adds' = adds + 1
    /\ UNCHANGED <<other, stack, explorer, calls, text, scored_moves, added>>

\* board.play(mv) with the move bit of a column taken from possible_moves().
Play(col) ==
    /\ Len(stack) < MaxStack
    /\ LET mv == col_to_pos(possible_moves(board), col)
       IN  /\ valid_play_pos(mv)
           /\ board' = play(board, mv)
           /\ stack' = Append(stack, [mv |-> mv, before |-> board])
           /\ last' = [NoCall EXCEPT !.op = "play", !.col = col, !.before = board]
    /\ placed' = placed + 1
    /\ UNCHANGED <<other, explorer, adds, calls, text, scored_moves, added>>

\* board.revert(mv) with the move played last.
Revert ==
    /\ stack # <<>>
    /\ LET top == stack[Len(stack)]
       IN  /\ board' = revert(board, top.mv)
           /\ last' = [NoCall EXCEPT !.op = "revert", !.before = board,
                                     !.expect = top.before]
    /\ stack' = SubSeq(stack, 1, Len(stack) - 1)
    /\ placed' = placed - 1
    /\ UNCHANGED <<other, explorer, adds, calls, text, scored_moves, added>>

Next ==
    \/ \E col \in 0 .. MaxCol : AddCol(col)
    \/ \E col \in 0 .. (WIDTH - 1) : Play(col)
    \/ Revert

Spec == Init /\ [][Next]_vars

\* ------------------------------------------------------ two positions
MaxKeyAdds == 4

KeyStarts == {<<LINE_FILLED, 0>>, <<LINE_ENDGAME_2, 29>>}

InitKeys ==
    /\ InitFrom(KeyStarts)
    /\ other = board

\* board.add(col) on the first board, where it succeeds.
KeyAdd(col) ==
    /\ adds < MaxKeyAdds
    /\ LET r == add(board, col)
       IN  /\ r.ok
           /\ board' = r.b
           /\ last' = [NoCall EXCEPT !.op = "add", !.col = col, !.before = board]
    /\ placed' = placed + 1
    /\ adds' = adds + 1
    /\ UNCHANGED <<other, stack, explorer, calls, text, scored_moves, added>>

\* other.add(col) on the second board, where it succeeds.
OtherAdd(col) ==
    /\ adds < MaxKeyAdds
    /\ LET r == add(other, col)
       IN  /\ r.ok
           /\ other' = r.b
    /\ adds' = adds + 1
    /\ UNCHANGED <<board, stack, last, explorer, placed, calls, text, scored_moves, added>>

NextKeys ==
    \/ \E col \in 0 .. (WIDTH - 1) : KeyAdd(col)
    \/ \E col \in 0 .. (WIDTH - 1) : OtherAdd(col)

SpecKeys == InitKeys /\ [][NextKeys]_vars

\* ------------------------------------------------- the board's claims
\* The cell of row r of column c, and the stones a column holds.
Cell(c, r) == c * COUNTS_PER_COL + r
Stones(b, c) == Cardinality({r \in 0 .. (HEIGHT - 1) : Cell(c, r) \in b.total_board})

\* C6: play(m) followed by revert(m) restores board and total_board bit for
\* bit, and so does every revert of a sequence of plays reverted in reverse
\* order: each revert gives back the board its play was made on; play(m)
\* alone changes the position key.
C6_PlayRevert ==
    /\ last.op = "revert" => board = last.expect
    /\ last.op = "play" =>
         get_unique_position_key(board) # get_unique_position_key(last.before)

\* Two moves were played and the second one is reverted: the board is the
\* one after the first move, which is still on the stack.
C6_Witness ==
    /\ last.op = "revert"
    /\ Len(stack) = 1
    /\ board = last.expect
    /\ board = play(stack[1].before, stack[1].mv)
    /\ board # last.before

\* C7: after successful add/play calls the board is well formed: board is a
\* subset of total_board, total_board has no bit outside the 42 cells, the
\* stones of every column are contiguous from row 0, and total_board has as
\* many bits as stones were placed.
C7_WellFormed ==
    /\ board.board \subseteq board.total_board
    /\ \A i \in board.total_board :
         i < WIDTH * COUNTS_PER_COL /\ i % COUNTS_PER_COL < HEIGHT
    /\ \A c \in 0 .. (WIDTH - 1) : \A r \in 1 .. (HEIGHT - 1) :
         Cell(c, r) \in board.total_board => Cell(c, r - 1) \in board.total_board
    /\ CountOnes(board.total_board) = placed

\* A board after 29 adds, one more add and two plays, with a full column.
C7_Witness ==
    /\ last.op = "play"
    /\ Len(stack) = 2
    /\ adds = 1
    /\ placed = 32
    /\ CountOnes(board.total_board) = 32
    /\ \E c \in 0 .. (WIDTH - 1) : Stones(board, c) = HEIGHT

\* C8: add(col) fails and leaves the board as it was when col >= 7 or the
\* column holds 6 stones; otherwise it succeeds and puts one stone, of the
\* side to move, in the lowest empty cell of the column: the column is one
\* higher and every other cell is as before.
C8_Add ==
    last.op = "add" =>
        LET col == last.col
            old == last.before
        IN  IF col >= WIDTH \/ Stones(old, col) = HEIGHT
            THEN ~last.ok /\ board = old
            ELSE /\ last.ok
                 /\ board.total_board = old.total_board \cup {Cell(col, Stones(old, col))}
                 /\ Cell(col, Stones(old, col)) \notin old.total_board
                 /\ Stones(board, col) = Stones(old, col) + 1
                 /\ \A c \in (0 .. (WIDTH - 1)) \ {col} : Stones(board, c) = Stones(old, c)
                 /\ board.board = (old.total_board \ old.board) \cup {Cell(col, Stones(old, col))}

\* add on a column below 7 that is full: the error and the board unchanged.
C8_Witness ==
    /\ last.op = "add"
    /\ last.col < WIDTH
    /\ Stones(last.before, last.col) = HEIGHT
    /\ ~last.ok
    /\ board = last.before

\* C9: possible_moves() holds, for each column that is not full, the bit of
\* its lowest empty cell and nothing else: no bit for a full column, no
\* guard bit, no occupied cell.
C9_PossibleMoves ==
    /\ possible_moves(board) =
         {Cell(c, Stones(board, c)) : c \in {d \in 0 .. (WIDTH - 1) : Stones(board, d) < HEIGHT}}
    /\ possible_moves(board) \cap board.total_board = {}
    /\ \A i \in possible_moves(board) : i % COUNTS_PER_COL # HEIGHT

\* A board reached by a play where one column is full and others are not.
C9_Witness ==
    /\ last.op = "play"
    /\ \E c \in 0 .. (WIDTH - 1) : Stones(board, c) = HEIGHT
    /\ Cardinality(possible_moves(board)) = WIDTH - 1

\* C10: two boards reached by legal play that differ in board or in
\* total_board have different keys.
C10_KeyInjective ==
    get_unique_position_key(board) = get_unique_position_key(other) => board = other

\* Two boards with the same cells occupied and the colours swapped.
C10_Witness ==
    /\ board.total_board = other.total_board
    /\ board.board # other.board
    /\ moves_played(board) >= 31
    /\ get_unique_position_key(board) # get_unique_position_key(other)

\* ------------------------------------------------------ the Explorer
MaxSolveAdds == 2
MaxCalls == 2
\* The empty cells up to which the positions are extended by further moves.
MaxEmpty == 9

SolveStarts ==
    {<<LINE_ENDGAME_1, 33>>, <<LINE_ENDGAME_6, 33>>, <<LINE_ENDGAME_4, 35>>,
     <<LINE_DRAW, 40>>, <<LINE_ONE_MOVE_WIN, 6>>, <<LINE_DOUBLE_THREAT, 5>>}

InitSolve ==
    /\ InitFrom(SolveStarts)
    /\ other = NewBoard

\* board.add(col) while the game goes on, where it succeeds.
SolveAdd(col) ==
    /\ adds < MaxSolveAdds
    /\ SIZE - moves_played(board) <= MaxEmpty
    /\ ~is_game_over(board)
    /\ LET r == add(board, col)
       IN  /\ r.ok
           /\ board' = r.b
           /\ last' = [NoCall EXCEPT !.op = "add", !.col = col, !.before = board]
    /\ placed' = placed + 1
    /\ adds' = adds + 1
    /\ UNCHANGED <<other, stack, explorer, calls, text, scored_moves, added>>

\* The Explorer at the start of a call: its history begins anew.
CallStart(ex) ==
    [ex EXCEPT !.stored = {}, !.searched = {}, !.expanded = {}, !.probes = <<>>]

\* explorer.evaluate(&board)
Evaluate ==
    /\ calls < MaxCalls
    /\ \E r \in {evaluate(board, CallStart(explorer))} :
         /\ explorer' = r.ex
         /\ last' = [NoCall EXCEPT !.op = "evaluate", !.before = board,
                                   !.val = r.val,
                                   !.searched = r.ex.nodes - explorer.nodes,
                                   !.wrote = (r.ex.table # explorer.table)]
    /\ calls' = calls + 1
    /\ UNCHANGED <<board, other, stack, placed, adds, text, scored_moves, added>>

\* explorer.solve(&board)
Solve ==
    /\ calls < MaxCalls
    /\ \E r \in {solve(board, CallStart(explorer))} :
         /\ explorer' = r.ex
         /\ last' = [NoCall EXCEPT !.op = "solve", !.before = board,
                                   !.col = r.col, !.val = r.val,
                                   !.panic = r.panic,
                                   !.searched = r.ex.nodes - explorer.nodes,
                                   !.wrote = (r.ex.table # explorer.table)]
    /\ calls' = calls + 1
    /\ UNCHANGED <<board, other, stack, placed, adds, text, scored_moves, added>>

NextSolve ==
    \/ \E col \in 0 .. (WIDTH - 1) : SolveAdd(col)
    \/ Evaluate
    \/ Solve

SpecSolve == InitSolve /\ [][NextSolve]_vars

\* ------------------------------------------------ the Explorer's claims
\* Four stones of S in a row, along a column, a row or a diagonal.
FourInARow(S) ==
    \E c \in 0 .. (WIDTH - 1) : \E r \in 0 .. (HEIGHT - 1) :
    \E d \in {<<0, 1>>, <<1, 0>>, <<1, 1>>, <<1, -1>>} :
        \A k \in 0 .. 3 :
            /\ c + k * d[1] \in 0 .. (WIDTH - 1)
            /\ r + k * d[2] \in 0 .. (HEIGHT - 1)
            /\ Cell(c + k * d[1], r + k * d[2]) \in S

\* The side that just moved has four in a row; every cell is occupied.
JustMovedWon(b) == FourInARow(b.board)
Full(b) == \A c \in 0 .. (WIDTH - 1) : Stones(b, c) = HEIGHT
Terminal(b) == JustMovedWon(b) \/ Full(b)

\* The position after the side to move drops a stone in column c.
Drop(b, c) ==
    [board |-> (b.total_board \ b.board) \cup {Cell(c, Stones(b, c))},
     total_board |-> b.total_board \cup {Cell(c, Stones(b, c))}]

Successors(b) == {Drop(b, c) : c \in {d \in 0 .. (WIDTH - 1) : Stones(b, d) < HEIGHT}}

\* The negamax value of a position for the side to move.  A successor in
\* which the mover has four in a row is worth 44 - (moves_played + 1) to the
\* mover, more than any other successor can be, so it decides the maximum.
RECURSIVE GameValue(_)
GameValue(b) ==
    IF JustMovedWon(b) THEN -(44 - Cardinality(b.total_board))
    ELSE IF Full(b) THEN 0
    ELSE IF \E s \in Successors(b) : JustMovedWon(s)
    THEN 44 - (Cardinality(b.total_board) + 1)
    ELSE LET vals == {-GameValue(s) : s \in Successors(b)}
         IN  CHOOSE v \in vals : \A w \in vals : w <= v

\* C1: on a legal position that is not terminal, evaluate returns the
\* negamax game value: the maximum over the legal successors of minus their
\* value, where a position in which the side that just moved has four in a
\* row is worth -(44 - moves_played) and a full board without winner 0.
C1_EvaluateIsNegamax ==
    (last.op = "evaluate" /\ ~Terminal(last.before)) =>
        last.val = GameValue(last.before)

\* The second call of the Explorer is an evaluate that searched more than
\* its root, on a position the side to move loses, with a table the first
\* call wrote.
C1_Witness ==
    /\ last.op = "evaluate"
    /\ calls = 2
    /\ ~Terminal(last.before)
    /\ last.searched > 1
    /\ last.val < 0
    /\ last.val = GameValue(last.before)

\* C4: evaluate on a position in which the side that just moved has four in
\* a row returns -(44 - moves_played), and on a full board without winner
\* 0; in both cases no node is searched and the table is not written.
C4_EvaluateTerminal ==
    last.op = "evaluate" =>
        /\ JustMovedWon(last.before) =>
             /\ last.val = -(44 - Cardinality(last.before.total_board))
             /\ last.searched = 0
             /\ ~last.wrote
        /\ (Full(last.before) /\ ~JustMovedWon(last.before)) =>
             /\ last.val = 0
             /\ last.searched = 0
             /\ ~last.wrote

\* evaluate on a board that is not full where the last stone made four in
\* a row, after an earlier call on the same Explorer.
C4_Witness ==
    /\ last.op = "evaluate"
    /\ calls = 2
    /\ JustMovedWon(last.before)
    /\ ~Full(last.before)
    /\ last.val = -(44 - Cardinality(last.before.total_board))
    /\ last.searched = 0

\* C5: when the game is over (a side has won or the board is full), solve
\* returns the empty move, which is no playable column, together with the
\* value evaluate returns on the position, and does not panic.
C5_SolveGameOver ==
    (last.op = "solve" /\ Terminal(last.before)) =>
        /\ last.col = EMPTY_MOVE
        /\ last.col \notin 0 .. (WIDTH - 1)
        /\ ~last.panic
        /\ last.val = evaluate(last.before, explorer).val

\* solve on a full board without a winner.
C5_Witness ==
    /\ last.op = "solve"
    /\ Full(last.before)
    /\ ~JustMovedWon(last.before)
    /\ last.col = EMPTY_MOVE
    /\ last.val = 0

\* --------------------------------------------------- position strings
\* The characters appended to a start before the string is parsed.
MaxText == 2

\* Characters of position strings: columns, the digits that name no
\* column, and characters that are no digits.
TextChars == {"1", "4", "7", "0", "8", "a"}

\* The strings the appended characters extend: the empty string, one with
\* a full column, and the line of test_filled one stone before the end.
TextStarts ==
    {<<>>, <<"1", "1", "1", "1", "1", "1">>, SubSeq(LINE_FILLED, 1, 41)}

InitParse ==
    /\ text \in TextStarts
    /\ board = NewBoard
    /\ other = NewBoard
    /\ stack = <<>>
    /\ last = NoCall
    /\ explorer = NewExplorer
    /\ placed = 0
    /\ adds = 0
    /\ calls = 0
    /\ scored_moves = <<>>
    /\ added = <<>>

\* One more character of the string.
TextAppend(c) ==
    /\ adds < MaxText
    /\ text' = Append(text, c)
    /\ adds' = adds + 1
    /\ UNCHANGED <<board, other, stack, last, explorer, placed, calls,
                   scored_moves, added>>

\* Board::new_position(text): Ok(board) or the error with its index.
NewPosition ==
    /\ \E r \in {new_position(text)} :
         /\ board' = IF r.ok THEN r.b ELSE board
         /\ placed' = IF r.ok THEN moves_played(r.b) ELSE placed
         /\ last' = [op |-> "new_position", text |-> text, ok |-> r.ok,
                     index |-> r.index]
    /\ UNCHANGED <<other, stack, explorer, adds, calls, text, scored_moves, added>>

NextParse ==
    \/ \E c \in TextChars : TextAppend(c)
    \/ NewPosition

SpecParse == InitParse /\ [][NextParse]_vars

\* The column a character names, counted from 0.
ColumnOf(c) == CHOOSE n \in 0 .. (WIDTH - 1) : <<"1", "2", "3", "4", "5", "6", "7">>[n + 1] = c

\* The i-th character of s is outside '1'..'7', or names a column that the
\* characters before it already filled.
BadChar(s, i) ==
    \/ s[i] \notin {"1", "2", "3", "4", "5", "6", "7"}
    \/ Cardinality({j \in 1 .. (i - 1) : s[j] = s[i]}) >= HEIGHT

\* The cell the i-th character of s fills: its column, above the stones of
\* the characters before it that name the same column.
CellOf(s, i) ==
    Cell(ColumnOf(s[i]), Cardinality({j \in 1 .. (i - 1) : s[j] = s[i]}))

\* The board after a stone was dropped in the column of each character of
\* s, the sides alternating: board holds the stones of the side that
\* dropped the last one.
Dropped(s) ==
    [board |-> {CellOf(s, i) : i \in {j \in 1 .. Len(s) : (Len(s) - j) % 2 = 0}},
     total_board |-> {CellOf(s, i) : i \in 1 .. Len(s)}]

\* C11: new_position(s) fails exactly when s holds a character outside
\* '1'..'7' or a digit of a column that is full at that point, and the error
\* names the zero-based index of the first such character; otherwise it
\* returns the board of the columns named, added in order to the empty board.
C11_NewPosition ==
    last.op = "new_position" =>
        LET s == last.text
            bad == {i \in 1 .. Len(s) : BadChar(s, i)}
        IN  IF bad = {}
            THEN last.ok /\ board = Dropped(s)
            ELSE /\ ~last.ok
                 /\ \A i \in bad : last.index + 1 <= i
                 /\ last.index + 1 \in bad

\* A string whose first seven characters name the same column, with a
\* character outside '1'..'7' after them: the error names index 6.
C11_Witness ==
    /\ last.op = "new_position"
    /\ ~last.ok
    /\ last.index = 6
    /\ last.text[7] = "1"
    /\ Len(last.text) = 8
    /\ last.text[8] \notin {"1", "4", "7"}

\* ------------------------------------------------------------- a game
\* tests/test_board.rs, test_win_vertical and test_win_horizontal
LINE_WIN_VERTICAL ==
    <<"3", "2", "3", "2", "3", "2", "3">>
LINE_WIN_HORIZONTAL ==
    <<"1", "1", "2", "2", "3", "3", "4">>

\* tests/test_board.rs, test_pre_win_singles and test_pre_win_multiples
LINE_PRE_WIN_RIGHT ==
    <<"1", "1", "2", "2", "3", "3">>
LINE_PRE_WIN_LEFT ==
    <<"7", "7", "6", "6", "5", "5">>
LINE_PRE_WIN_BETWEEN_LEFT ==
    <<"1", "1", "3", "3", "4", "4">>
LINE_PRE_WIN_BETWEEN_RIGHT ==
    <<"1", "1", "2", "2", "4", "4">>
LINE_PRE_WIN_DIAGONAL ==
    <<"4", "4", "4", "4", "4", "4", "3", "2", "6", "5", "5", "2", "3", "2",
      "2", "5", "5", "6", "3">>
LINE_PRE_WIN_MULTIPLE ==
    <<"2", "2", "3", "3", "4", "4">>

\* The mirror image of LINE_PRE_WIN_DIAGONAL: the other diagonal.
LINE_PRE_WIN_MIRROR ==
    <<"4", "4", "4", "4", "4", "4", "5", "6", "2", "3", "3", "6", "5", "6",
      "6", "3", "3", "2", "5">>

\* Eight moves after which the side to move can top the first column with a
\* third stone of its own, next to its stone at the bottom of the second.
LINE_COLUMN_TOP ==
    <<"2", "1", "1", "1", "1", "3", "1", "3", "1">>

\* The moves made in a game after its start.
MaxGameAdds == 2

GameStarts ==
    {<<LINE_FILLED, 0>>, <<LINE_WIN_VERTICAL, 5>>, <<LINE_WIN_HORIZONTAL, 5>>,
     <<LINE_PRE_WIN_RIGHT, 6>>, <<LINE_PRE_WIN_LEFT, 6>>,
     <<LINE_PRE_WIN_BETWEEN_LEFT, 6>>, <<LINE_PRE_WIN_BETWEEN_RIGHT, 6>>,
     <<LINE_PRE_WIN_DIAGONAL, 19>>, <<LINE_PRE_WIN_MIRROR, 19>>,
     <<LINE_PRE_WIN_MULTIPLE, 5>>,
     <<LINE_DOUBLE_THREAT, 4>>, <<LINE_COLUMN_TOP, 8>>, <<LINE_ENDGAME_2, 29>>,
     <<LINE_DRAW, 40>>}

\* The game starts from a position string; text holds the moves so far.
InitGame ==
    /\ \E s \in GameStarts :
         LET r == new_position(SubSeq(s[1], 1, s[2]))
         IN  /\ r.ok
             /\ board = r.b
             /\ placed = r.index
             /\ text = SubSeq(s[1], 1, s[2])
    /\ other = NewBoard
    /\ stack = <<>>
    /\ last = NoCall
    /\ explorer = NewExplorer
    /\ adds = 0
    /\ calls = 0
    /\ scored_moves = <<>>
    /\ added = <<>>

\* board.add(col) while nobody has won and the board is not full, where it
\* succeeds; the column is appended to the position string.
GameAdd(col) ==
    /\ adds < MaxGameAdds
    /\ ~(has_winner(board) \/ is_filled(board))
    /\ LET r == add(board, col)
       IN  /\ r.ok
           /\ board' = r.b
           /\ last' = [NoCall EXCEPT !.op = "add", !.col = col, !.before = board]
    /\ text' = Append(text, <<"1", "2", "3", "4", "5", "6", "7">>[col + 1])
    /\ placed' = placed + 1
    /\ adds' = adds + 1
    /\ UNCHANGED <<other, stack, explorer, calls, scored_moves, added>>

\* The masks Moves::new is given: the playable cells, those that do not
\* lose and those that win.
GameMasks(b) ==
    {possible_moves(b), non_losing_moves(b, possible_moves(b)),
     player_win_moves(b, possible_moves(b))}

\* Moves::new(mask), iterated to its end.
MovesNew(mask) ==
    /\ last' = [op |-> "moves", mask |-> mask, moves |-> Moves(mask)]
    /\ UNCHANGED <<board, other, stack, explorer, placed, adds, calls, text,
                   scored_moves, added>>

\* Board::get with the side chosen whatever the number of stones.
get_of_board(b, row, col) ==
    LET mask == row + col * COUNTS_PER_COL
    IN  IF mask \in b.total_board THEN <<mask \in b.board>> ELSE <<>>

\* Board::get(row, col): Some(piece) as <<piece>>, None as << >>.
get(b, row, col) ==
    LET side == IF moves_played(b) % 2 = 0
                THEN b.board
                ELSE BitXor(b.board, b.total_board)
        mask == row + col * COUNTS_PER_COL
        piece == mask \in side
        within_total == mask \in b.total_board
    IN  IF within_total THEN <<piece>> ELSE <<>>

\* Display::fmt: the characters pushed for i = 0 .. SIZE - 1, a newline
\* after each WIDTH of them.
fmt(b) ==
    [k \in 1 .. (SIZE + HEIGHT) |->
        LET i == ((k - 1) \div (WIDTH + 1)) * WIDTH + ((k - 1) % (WIDTH + 1))
            c == i % WIDTH
            r == HEIGHT - (i \div WIDTH) - 1
        IN  IF (k - 1) % (WIDTH + 1) = WIDTH THEN "\n"
            ELSE IF get(b, r, c) = <<FALSE>> THEN "O"
            ELSE IF get(b, r, c) = <<TRUE>> THEN "X"
            ELSE "_"]

\* println!("{}", board).
Display ==
    /\ last' = [op |-> "display", out |-> fmt(board)]
    /\ UNCHANGED <<board, other, stack, explorer, placed, adds, calls, text,
                   scored_moves, added>>

NextGame ==
    \/ \E col \in 0 .. (WIDTH - 1) : GameAdd(col)
    \/ \E mask \in GameMasks(board) : MovesNew(mask)
    \/ Display

SpecGame == InitGame /\ [][NextGame]_vars

\* The lines of four adjacent cells of the 7x6 grid: from a cell, along its
\* column, its row or a diagonal, as far as the grid goes.
LineStarts ==
    {x \in (0 .. (WIDTH - 1)) \X (0 .. (HEIGHT - 1)) \X {<<0, 1>>, <<1, 0>>, <<1, 1>>, <<1, -1>>} :
        /\ x[1] + 3 * x[3][1] \in 0 .. (WIDTH - 1)
        /\ x[2] + 3 * x[3][2] \in 0 .. (HEIGHT - 1)}

Lines ==
    {{Cell(x[1] + k * x[3][1], x[2] + k * x[3][2]) : k \in 0 .. 3} : x \in LineStarts}

\* S holds the four cells of a line.
HasLine(S) == \E l \in Lines : l \subseteq S

\* C12: on a board reached by legal play in which the game was not over
\* before the last move, has_winner() is true exactly when the side that made
\* the last move has four of its stones adjacent in a line, vertical,
\* horizontal or diagonal, inside the 7x6 grid; three stones at the top of a
\* column and one at the bottom of the next are no line.
C12_HasWinner ==
    has_winner(board) <=> HasLine(Dropped(text).board)

\* The last add completed a diagonal of four, and no other line.
C12_Witness ==
    /\ last.op = "add"
    /\ has_winner(board)
    /\ \E c \in 0 .. 3 : \E r \in 0 .. 2 :
         \A k \in 0 .. 3 : Cell(c + k, r + k) \in Dropped(text).board
    /\ ~HasLine(Dropped(text).board \ {CellOf(text, Len(text))})

\* The two sides' stones, and the cells no stone is in.
Sides(b) == {b.board, get_curr_player_pos(b)}
EmptyCells(b) == {Cell(c, r) : c \in 0 .. (WIDTH - 1), r \in 0 .. (HEIGHT - 1)} \ b.total_board

\* Masks of playable cells: all the playable cells, and each one alone.
AllowedMasks(b) ==
    {possible_moves(b)} \cup {{c} : c \in possible_moves(b)}

\* C13, as stated: for the stones p of a side and every allowed mask,
\* winning_moves(p, allowed) is the set of the cells c of allowed such that
\* p with c added contains four in a row (is_win(p | c)).
C13_AsStated ==
    \A p \in Sides(board) : \A allowed \in AllowedMasks(board) \cup {EmptyCells(board)} :
        winning_moves(p, allowed) = {c \in allowed : is_win(p \cup {c})}

\* C13: for the stones p of a side that has no four in a row yet and every
\* allowed mask of empty cells, winning_moves(p, allowed) is the set of the
\* cells c of allowed such that p with c added contains four in a row, in
\* the grid (no line across a column boundary) and by is_win(p | c): three
\* stacked, and the patterns XXX_, XX_X, X_XX, _XXX in the other directions.
C13_WinningMoves ==
    \A p \in Sides(board) : ~HasLine(p) =>
        \A allowed \in AllowedMasks(board) \cup {EmptyCells(board)} :
            /\ winning_moves(p, allowed) = {c \in allowed : HasLine(p \cup {c})}
            /\ winning_moves(p, allowed) = {c \in allowed : is_win(p \cup {c})}

\* The side to move has a winning cell between its stones in a row (XX_X or
\* X_XX) that is playable, and nobody has four in a row.
C13_Witness ==
    /\ last.op = "add"
    /\ ~HasLine(board.board)
    /\ \E c \in 1 .. (WIDTH - 2) : \E r \in 0 .. (HEIGHT - 1) :
         /\ Cell(c, r) \in winning_moves(get_curr_player_pos(board), possible_moves(board))
         /\ Cell(c - 1, r) \in get_curr_player_pos(board)
         /\ Cell(c + 1, r) \in get_curr_player_pos(board)
         /\ ~(c >= 3 /\ {Cell(c - 3, r), Cell(c - 2, r)} \subseteq get_curr_player_pos(board))
         /\ ~(c <= 3 /\ {Cell(c + 3, r), Cell(c + 2, r)} \subseteq get_curr_player_pos(board))

\* The opponent of the side to move completes four in a row with one of the
\* cells that are playable after the side to move played the cell m.
OpponentWinsAfter(b, m) ==
    LET after == (possible_moves(b) \ {m})
                   \cup {m + 1 : k \in {m} \cap {j \in 0 .. 48 : j % COUNTS_PER_COL < HEIGHT - 1}}
    IN  \E c \in after : HasLine(b.board \cup {c})

\* The playable cells with which the opponent of the side to move would
\* complete four in a row.
OpponentWinningCells(b) == {c \in possible_moves(b) : HasLine(b.board \cup {c})}

\* C14: on a legal position that is not terminal, with playable =
\* possible_moves(), a move m of playable is in non_losing_moves(playable)
\* exactly when the opponent has no winning cell among the cells playable
\* after m; the result is a subset of playable, it is 0 when the opponent
\* has two or more playable winning cells, and it holds no move directly
\* below a winning cell of the opponent.
C14_NonLosingMoves ==
    ~(HasLine(board.board) \/ Full(board)) =>
        LET playable == possible_moves(board)
            result == non_losing_moves(board, playable)
        IN  /\ result = {m \in playable : ~OpponentWinsAfter(board, m)}
            /\ result \subseteq playable
            /\ Cardinality(OpponentWinningCells(board)) >= 2 => result = {}
            /\ \A m \in result :
                 ~(m % COUNTS_PER_COL < HEIGHT - 1 /\ HasLine(board.board \cup {m + 1}))

\* The opponent has one playable winning cell and a winning cell right above
\* another playable cell: the result is the forced move alone.
C14_Witness ==
    /\ last.op = "add"
    /\ ~(HasLine(board.board) \/ Full(board))
    /\ Cardinality(OpponentWinningCells(board)) = 1
    /\ \E m \in possible_moves(board) :
         /\ m \notin OpponentWinningCells(board)
         /\ HasLine(board.board \cup {m + 1})
    /\ non_losing_moves(board, possible_moves(board)) = OpponentWinningCells(board)

\* The place of a column in the order 3, 2, 4, 1, 5, 0, 6.
PlaceOf(c) == CHOOSE i \in 1 .. 7 : <<3, 2, 4, 1, 5, 0, 6>>[i] = c

\* C19: iterating the Moves built from a mask of candidate move bits yields
\* the columns in the order 3, 2, 4, 1, 5, 0, 6 without those that have no
\* bit in the mask, each remaining column once, each with the bit of the mask
\* in that column (pos_to_col(bit) = column).
C19_MovesOrder ==
    last.op = "moves" =>
        LET ms == last.moves
            cols == {c \in 0 .. (WIDTH - 1) :
                        \E r \in 0 .. (HEIGHT - 1) : Cell(c, r) \in last.mask}
        IN  /\ {ms[i].col : i \in 1 .. Len(ms)} = cols
            /\ Len(ms) = Cardinality(cols)
            /\ \A i \in 1 .. Len(ms) : \A j \in 1 .. Len(ms) :
                 i < j => PlaceOf(ms[i].col) < PlaceOf(ms[j].col)
            /\ \A i \in 1 .. Len(ms) :
                 /\ ms[i].mv = {Cell(ms[i].col, r) : r \in 0 .. (HEIGHT - 1)} \cap last.mask
                 /\ ms[i].mv # {}
                 /\ pos_to_col(ms[i].mv) = ms[i].col

\* The mask of the playable cells of a board with a full column after a
\* move: six columns come out, the first one not the centre.
C19_Witness ==
    /\ last.op = "moves"
    /\ last.mask = possible_moves(board)
    /\ Stones(board, 3) = HEIGHT
    /\ Len(last.moves) = WIDTH - 1
    /\ last.moves[1].col = 2
    /\ last.moves[6].col = 6

\* ------------------------------------------- the transposition table
\* tests/test_transpositiontable.rs, test_insert_get
LINE_INSERT_GET ==
    <<"4", "4", "4", "4", "4", "7", "5", "2", "2", "2", "2", "4", "3", "6",
      "6", "5", "6", "5", "6", "6", "2", "6", "3", "3", "7", "5", "5", "1",
      "5", "1", "2", "7", "1", "7", "1", "7", "7", "1", "3", "1", "3">>

\* The u64 of a number below 2^31.
Word(n) == {i \in 0 .. 30 : (n \div (2 ^ i)) % 2 = 1}

\* The keys given to the table: key1 and key2 of test_collision, the key
\* of the board of test_insert_get, and key1 + 2^32 * MAX_TABLE_SIZE, which
\* has the bucket and the low 32 bits of key1.
KEY1 == Word(3)
KEY2 == Word(MAX_TABLE_SIZE + 3)
KEY_BOARD == get_unique_position_key(Position(LINE_INSERT_GET, 41))
KEY_FAR == BitOr(Shl(Word(MAX_TABLE_SIZE), STORED_KEY_BITS), KEY1)
TableKeys == {KEY1, KEY2, KEY_BOARD, KEY_FAR}

\* (eval, flag, depth, mv) of the inserts: those of test_collision and of
\* test_insert_get, and an exact entry of a lower depth.
TableEntries ==
    {<<13, FLAG_LOWER, 15, 3>>, <<14, FLAG_UPPER, 16, 4>>,
     <<5, FLAG_UPPER, 15, 3>>, <<-1, FLAG_EXACT, 7, 0>>}

\* The calls made on the table.
MaxTableCalls == 3

InitTable ==
    /\ board = NewBoard
    /\ other = NewBoard
    /\ stack = <<>>
    /\ last = NoCall
    /\ explorer = NewExplorer
    /\ placed = 0
    /\ adds = 0
    /\ calls = 0
    /\ text = <<>>
    /\ scored_moves = <<>>
    /\ added = <<>>

\* table.insert_with_key(key, eval, flag, depth, mv); last keeps the call,
\* the table before it and the call before it.
InsertWithKey(key, e) ==
    /\ calls < MaxTableCalls
    /\ explorer' = [explorer EXCEPT
                       !.table = insert_with_key(@, key, e[1], e[2], e[3], e[4])]
    /\ last' = [op |-> "insert", key |-> key, eval |-> e[1], flag |-> e[2],
                depth |-> e[3], mv |-> e[4], before |-> explorer.table,
                prev |-> IF last.op = "insert"
                         THEN [op |-> "insert", key |-> last.key, eval |-> last.eval,
                               flag |-> last.flag, depth |-> last.depth,
                               mv |-> last.mv, before |-> last.before]
                         ELSE [op |-> last.op]]
    /\ calls' = calls + 1
    /\ UNCHANGED <<board, other, stack, placed, adds, text, scored_moves, added>>

\* table.clear()
TableClear ==
    /\ calls < MaxTableCalls
    /\ explorer' = [explorer EXCEPT !.table = TranspositionTable_clear(@)]
    /\ last' = [op |-> "clear", before |-> explorer.table]
    /\ calls' = calls + 1
    /\ UNCHANGED <<board, other, stack, placed, adds, text, scored_moves, added>>

NextTable ==
    \/ \E key \in TableKeys : \E e \in TableEntries : InsertWithKey(key, e)
    \/ TableClear

SpecTable == InitTable /\ [][NextTable]_vars

\* The lookup of key k returns an entry with the fields of the call c.
Returns(table, k, c) ==
    LET hit == get_entry_with_key(table, k)
    IN  /\ hit.found
        /\ hit.entry.eval = c.eval
        /\ hit.entry.flag = c.flag
        /\ hit.entry.depth = c.depth
        /\ hit.entry.mv = c.mv

\* C15: after any sequence of table operations, get_entry_with_key(k) right
\* after insert_with_key(k, eval, flag, depth, mv) returns an entry with that
\* eval, flag, depth and mv.
C15_InsertThenGet ==
    last.op = "insert" => Returns(explorer.table, last.key, last)

\* The key was inserted before with a lower depth, which the second entry of
\* the bucket still holds; the lookup returns the fields of the last insert.
C15_Witness ==
    /\ last.op = "insert"
    /\ calls = 3
    /\ Bucket(explorer.table, location(last.key))[2].stored_key
         = BitAnd(last.key, STORED_KEY_BIT_MASK)
    /\ Bucket(explorer.table, location(last.key))[2].depth < last.depth
    /\ Bucket(explorer.table, location(last.key))[2].eval # last.eval
    /\ Returns(explorer.table, last.key, last)

\* The last two calls inserted two different keys of the same bucket, the
\* second with a depth that is not smaller.
TwoInserts ==
    /\ last.op = "insert"
    /\ last.prev.op = "insert"
    /\ last.prev.key # last.key
    /\ location(last.prev.key) = location(last.key)
    /\ last.depth >= last.prev.depth

\* C17, as stated: when two different keys k1 and k2 fall in the same bucket
\* and k1 is inserted with depth d1 and afterwards k2 with depth d2 >= d1,
\* lookup(k2) returns the fields of k2 and lookup(k1) those of k1.
C17_AsStated ==
    TwoInserts =>
        /\ Returns(explorer.table, last.key, last)
        /\ Returns(explorer.table, last.prev.key, last.prev)

\* C17: when two keys k1 and k2 that differ in their low 32 bits fall in the
\* same bucket, k1 is inserted with a depth d1 strictly smaller than the
\* depth the second entry of the bucket holds at that time (255 in a new
\* table), and afterwards k2 is inserted with depth d2 >= d1, then
\* lookup(k2) returns the fields of k2 and lookup(k1) still returns the
\* eval, flag, depth and move of k1.
C17_BothRetrievable ==
    (/\ TwoInserts
     /\ BitAnd(last.prev.key, STORED_KEY_BIT_MASK) # BitAnd(last.key, STORED_KEY_BIT_MASK)
     /\ last.prev.depth < Bucket(last.prev.before, location(last.prev.key))[2].depth) =>
        /\ Returns(explorer.table, last.key, last)
        /\ Returns(explorer.table, last.prev.key, last.prev)

\* key1 then key2 of test_collision, with the same depth, in a bucket that
\* held an entry of a higher depth: the two entries of the bucket hold the
\* two keys.
C17_Witness ==
    /\ TwoInserts
    /\ calls = 3
    /\ last.key = KEY2
    /\ last.prev.key = KEY1
    /\ last.depth = last.prev.depth
    /\ last.prev.before # NewTable
    /\ last.prev.depth < Bucket(last.prev.before, location(KEY1))[2].depth
    /\ Returns(explorer.table, KEY2, last)
    /\ Returns(explorer.table, KEY1, last.prev)
    /\ last.eval # last.prev.eval

\* C18: insert changes only the bucket of its key: it always overwrites the
\* first (always-replace) entry, overwrites the second (depth-preferred)
\* entry exactly when the new depth is strictly smaller than the depth
\* stored there, and leaves every other bucket as it was.
C18_InsertFrame ==
    last.op = "insert" =>
        LET loc == location(last.key)
            old == Bucket(last.before, loc)
            new == Bucket(explorer.table, loc)
            entry == [stored_key |-> last.key \cap (0 .. 31), eval |-> last.eval,
                      flag |-> last.flag, depth |-> last.depth, mv |-> last.mv]
        IN  /\ new[1] = entry
            /\ new[2] = IF last.depth < old[2].depth THEN entry ELSE old[2]
            /\ DOMAIN explorer.table = DOMAIN last.before \cup {loc}
            /\ \A l \in DOMAIN explorer.table \ {loc} :
                 Bucket(explorer.table, l) = Bucket(last.before, l)

\* An insert of a higher depth into a bucket whose entries hold another
\* key, while another bucket is written: the second entry stays.
C18_Witness ==
    /\ last.op = "insert"
    /\ DOMAIN last.before \ {location(last.key)} # {}
    /\ Bucket(last.before, location(last.key))[1].stored_key # EMPTY_KEY
    /\ Bucket(last.before, location(last.key))[2].depth < last.depth
    /\ Bucket(explorer.table, location(last.key))[2]
         = Bucket(last.before, location(last.key))[2]
    /\ Bucket(explorer.table, location(last.key))[1]
         # Bucket(last.before, location(last.key))[1]

\* C16: a lookup with the key of a legal position never returns an entry
\* stored for another position: the keys of two different positions do not
\* share both the bucket (key mod 8388593) and the low 32 bits, no key has
\* the low 32 bits of the empty entry (0xFFFFFFFF), and a lookup on a new or
\* a cleared table returns none.
C16_NoFalseHit ==
    LET k == get_unique_position_key(board)
        ko == get_unique_position_key(other)
        stored == insert_with_key(NewTable, ko, 5, FLAG_UPPER, moves_played(other), 3)
    IN  /\ board # other =>
             \/ location(k) # location(ko)
             \/ k \cap (0 .. 31) # ko \cap (0 .. 31)
        /\ get_entry_with_key(stored, k).found => board = other
        /\ k \cap (0 .. 31) # 0 .. 31
        /\ ~get_entry_with_key(NewTable, k).found
        /\ ~get_entry_with_key(TranspositionTable_clear(stored), k).found
        /\ ~get_entry_with_key(TranspositionTable_clear(stored), ko).found

\* Two different positions with the same cells occupied: the entry of one
\* is found with its key and not with the key of the other, and is not
\* found after clear().
C16_Witness ==
    /\ board # other
    /\ board.total_board = other.total_board
    /\ moves_played(board) >= 31
    /\ LET stored == insert_with_key(NewTable, get_unique_position_key(other), 5,
                                      FLAG_UPPER, moves_played(other), 3)
       IN  /\ get_entry_with_key(stored, get_unique_position_key(other)).found
           /\ ~get_entry_with_key(stored, get_unique_position_key(board)).found
           /\ ~get_entry_with_key(TranspositionTable_clear(stored),
                                   get_unique_position_key(other)).found

\* ------------------------------------------------------- scored moves
\* The add calls made on a ScoredMoves.
MaxScoredAdds == 7

\* The scores given to add: scores of test_scored_moves_ties, and the score
\* of a refutation.
ScoreValues == {0, 3, 4, REFUTATION_SCORE}

InitScored ==
    /\ board = NewBoard
    /\ other = NewBoard
    /\ stack = <<>>
    /\ last = NoCall
    /\ explorer = NewExplorer
    /\ placed = 0
    /\ adds = 0
    /\ calls = 0
    /\ text = <<>>
    /\ scored_moves = <<>>
    /\ added = <<>>

\* scored_moves.add(pos, col, score) with the next column of DEFAULT_ORDER
\* and its bottom cell, as test_scored_moves_ordering does; move_scores
\* has WIDTH places.
ScoredAdd(score) ==
    /\ Len(added) < MaxScoredAdds
    /\ Len(added) < WIDTH
    /\ LET col == DEFAULT_ORDER[Len(added) + 1]
           pos == col_to_pos(BOTTOM_ROW_MASK, col)
       IN  /\ scored_moves' = ScoredMoves_add(scored_moves, pos, col, score)
           /\ added' = Append(added, [mv |-> pos, col |-> col, score |-> score])
    /\ UNCHANGED <<board, other, stack, last, explorer, placed, adds, calls, text>>

NextScored == \E score \in ScoreValues : ScoredAdd(score)

SpecScored == InitScored /\ [][NextScored]_vars

\* The call of add that gave the column c.
AddOf(c) == CHOOSE i \in 1 .. Len(added) : added[i].col = c

\* C20: after at most 7 add(move, col, score) calls on a new ScoredMoves,
\* the iteration yields every added (move, col) exactly once, in an order of
\* scores that do not increase, and entries of the same score in the order in
\* which they were added.
C20_ScoredOrder ==
    LET out == ScoredMoves_next(scored_moves, 0)
    IN  /\ Len(out) = Len(added)
        /\ \A i \in 1 .. Len(added) :
             Cardinality({j \in 1 .. Len(out) :
                            out[j].mv = added[i].mv /\ out[j].col = added[i].col}) = 1
        /\ \A j \in 1 .. Len(out) : \A k \in 1 .. Len(out) :
             j < k =>
                \/ added[AddOf(out[j].col)].score > added[AddOf(out[k].col)].score
                \/ /\ added[AddOf(out[j].col)].score = added[AddOf(out[k].col)].score
                   /\ AddOf(out[j].col) < AddOf(out[k].col)

\* Seven adds, the greatest score added last, after three adds of one score
\* with a greater score between them.
C20_Witness ==
    /\ Len(added) = 7
    /\ added[7].score = REFUTATION_SCORE
    /\ added[1].score = 3 /\ added[2].score = 4 /\ added[3].score = 3
    /\ added[5].score = 3 /\ added[4].score = 0 /\ added[6].score = 4
    /\ ScoredMoves_next(scored_moves, 0)[1].col = DEFAULT_ORDER[7]
    /\ ScoredMoves_next(scored_moves, 0)[7].col = DEFAULT_ORDER[4]

\* ---------------------------------------------------------------------
\* Board display (board.rs, Display and Board::get)
\* ---------------------------------------------------------------------

\* The character the display owes the cell of column c and row r after the
\* columns of s were played in turn, the first mover's stones drawn as
\* first and the second mover's as second.
Drawn(s, c, r, first, second) ==
    IF \E i \in 1 .. Len(s) : CellOf(s, i) = Cell(c, r)
    THEN IF (CHOOSE i \in 1 .. Len(s) : CellOf(s, i) = Cell(c, r)) % 2 = 1
         THEN first
         ELSE second
    ELSE "_"

\* The display prints rows 5 down to 0, each of columns 0 to 6 and a
\* newline, with the two sides drawn as first and second.
Printed(out, s, first, second) ==
    /\ Len(out) = HEIGHT * (WIDTH + 1)
    /\ \A q \in 0 .. (HEIGHT - 1) :
         /\ out[q * (WIDTH + 1) + WIDTH + 1] = "\n"
         /\ \A c \in 0 .. (WIDTH - 1) :
              out[q * (WIDTH + 1) + c + 1] = Drawn(s, c, HEIGHT - 1 - q, first, second)

\* C21 as stated: the display prints rows 5 down to 0 and columns 0 to 6,
\* every stone of the first mover as X, every stone of the second mover as
\* O and every empty cell as _.
C21_AsStated ==
    last.op = "display" => Printed(last.out, text, "X", "O")

\* C21: the display prints rows 5 down to 0 and columns 0 to 6, each row
\* ended by a newline, every stone of the first mover as O, every stone of
\* the second mover as X and every empty cell as _.
C21_Display ==
    last.op = "display" => Printed(last.out, text, "O", "X")

C21_Witness ==
    /\ last.op = "display"
    /\ Len(text) % 2 = 1
    /\ text[1] = "4"
    /\ last.out[5 * (WIDTH + 1) + 3 + 1] = "O"
    /\ \E k \in 1 .. Len(last.out) : last.out[k] = "X"
    /\ \E k \in 1 .. Len(last.out) : last.out[k] = "_"

\* ---------------------------------------------------------------------
\* clear() against a new table (transpositiontable.rs)
\* ---------------------------------------------------------------------

\* Three keys of one bucket, two of them with the same low 32 bits.
BucketKeys == {KEY1, KEY2, KEY_FAR}

\* What a lookup of k gives: nothing, or the fields of the entry found.
Lookup(table, k) ==
    LET hit == get_entry_with_key(table, k)
    IN  IF hit.found
        THEN <<hit.entry.eval, hit.entry.flag, hit.entry.depth, hit.entry.mv>>
        ELSE <<>>

\* The table after insert_with_key(k, e).
Inserted(table, k, e) == insert_with_key(table, k, e[1], e[2], e[3], e[4])

\* Every lookup gives the same on both tables, at once, after one insert
\* and after a second one.
SameLookups(t1, t2, k1, e1, k2, e2) ==
    \A k \in BucketKeys :
        /\ Lookup(t1, k) = Lookup(t2, k)
        /\ Lookup(Inserted(t1, k1, e1), k) = Lookup(Inserted(t2, k1, e1), k)
        /\ Lookup(Inserted(Inserted(t1, k1, e1), k2, e2), k)
             = Lookup(Inserted(Inserted(t2, k1, e1), k2, e2), k)

\* C27 as stated: after clear(), any sequence of inserts and lookups gives
\* the same lookup results as the same sequence on a new table.
C27_AsStated ==
    last.op = "clear" =>
        \A k1 \in BucketKeys, k2 \in BucketKeys :
            \A e1 \in TableEntries, e2 \in TableEntries :
                SameLookups(explorer.table, NewTable, k1, e1, k2, e2)

\* C27: after clear() every lookup returns nothing, as on a new table, and
\* a sequence of inserts and lookups gives the same lookup results as on a
\* new table when the first insert into the bucket has a depth strictly
\* below the depth that the second entry of the bucket kept through
\* clear() (255 in a bucket never written); with a first insert of that
\* depth or more the second entry of the cleared bucket stays empty.
C27_ClearKeepsDepth ==
    last.op = "clear" =>
        /\ \A k \in TableKeys : Lookup(explorer.table, k) = <<>>
        /\ \A l \in DOMAIN last.before :
             explorer.table[l][2].depth = last.before[l][2].depth
        /\ \A k1 \in BucketKeys, k2 \in BucketKeys :
             \A e1 \in TableEntries, e2 \in TableEntries :
                IF e1[3] < Bucket(explorer.table, location(k1))[2].depth
                THEN SameLookups(explorer.table, NewTable, k1, e1, k2, e2)
                ELSE Inserted(explorer.table, k1, e1)[location(k1)][2].stored_key
                         = EMPTY_KEY

\* clear() on a table whose bucket held key1 at depth 7 in both entries.
C27_Witness ==
    /\ last.op = "clear"
    /\ Returns(last.before, KEY1, [eval |-> -1, flag |-> FLAG_EXACT, depth |-> 7, mv |-> 0])
    /\ last.before[location(KEY1)][2].depth = 7
    /\ Lookup(explorer.table, KEY1) = <<>>
    /\ Lookup(Inserted(Inserted(explorer.table, KEY1, <<13, FLAG_LOWER, 15, 3>>),
                       KEY2, <<14, FLAG_UPPER, 16, 4>>), KEY1) = <<>>
    /\ Lookup(Inserted(Inserted(NewTable, KEY1, <<13, FLAG_LOWER, 15, 3>>),
                       KEY2, <<14, FLAG_UPPER, 16, 4>>), KEY1) = <<13, FLAG_LOWER, 15, 3>>

\* ---------------------------------------------------------------------
\* The search and its table (strategy.rs, Explorer::search)
\* ---------------------------------------------------------------------

\* The drawn line left after 35 stones for the first column.
LINE_DRAW_ASIDE == Append(SubSeq(LINE_DRAW, 1, 35), "1")

\* The positions searched from, six cells before the board is full: lines
\* of test_strategy.rs, the drawn line and the line that leaves it.
SearchStarts ==
    {<<LINE_ENDGAME_1, 36>>, <<LINE_ENDGAME_4, 36>>, <<LINE_DRAW, 36>>,
     <<LINE_DRAW_ASIDE, 36>>}

\* The moves added to a start.
MaxSearchAdds == 1

InitSearch ==
    /\ InitFrom(SearchStarts)
    /\ other = NewBoard

\* board.add(col) while the game goes on, where it succeeds.
SearchAdd(col) ==
    /\ adds < MaxSearchAdds
    /\ ~is_game_over(board)
    /\ LET r == add(board, col)
       IN  /\ r.ok
           /\ board' = r.b
           /\ last' = [NoCall EXCEPT !.op = "add", !.col = col, !.before = board]
    /\ placed' = placed + 1
    /\ adds' = adds + 1
    /\ UNCHANGED <<other, stack, explorer, calls, text, scored_moves, added>>

NextSearch ==
    \/ \E col \in 0 .. (WIDTH - 1) : SearchAdd(col)
    \/ Evaluate
    \/ Solve

SpecSearch == InitSearch /\ [][NextSearch]_vars

\* The negamax value of b and of every position below it that no side has
\* won, as pairs <<position, value>>; the columns are tried from c on, best
\* being the best value found and all the pairs gathered so far.
RECURSIVE ValuesBelow(_)
RECURSIVE ValuesFrom(_, _, _, _)

ValuesNext(b, c, best, all, r) ==
    ValuesFrom(b, c + 1, IF -r.v > best THEN -r.v ELSE best, all \cup r.all)

ValuesFrom(b, c, best, all) ==
    IF c = WIDTH THEN [v |-> best, all |-> all \cup {<<b, best>>}]
    ELSE IF Stones(b, c) = HEIGHT THEN ValuesFrom(b, c + 1, best, all)
    ELSE ValuesNext(b, c, best, all, ValuesBelow(Drop(b, c)))

ValuesBelow(b) ==
    IF HasLine(b.board)
    THEN [v |-> -(44 - Cardinality(b.total_board)), all |-> {}]
    ELSE IF Full(b) THEN [v |-> 0, all |-> {<<b, 0>>}]
    ELSE ValuesFrom(b, 0, -44, {})

\* The true value of b, a position of all, is at least lo and at most hi.
ValueWithin(all, b, lo, hi) == \E v \in lo .. hi : <<b, v>> \in all

\* An entry stored for the position e.b is sound.
SoundEntry(e, all) ==
    /\ e.flag \in {FLAG_EXACT, FLAG_LOWER, FLAG_UPPER}
    /\ e.flag = FLAG_EXACT => ValueWithin(all, e.b, e.eval, e.eval)
    /\ e.flag = FLAG_LOWER => ValueWithin(all, e.b, e.eval, 44)
    /\ e.flag = FLAG_UPPER => ValueWithin(all, e.b, -44, e.eval)
    /\ e.depth = Cardinality(e.b.total_board)

\* The entries the table holds under a key, as Entry_new builds them.
TableEntriesHeld(table) ==
    {table[l][i] : <<l, i>> \in
        {<<l, i>> \in (DOMAIN table) \X {1, 2} : table[l][i].stored_key # EMPTY_KEY}}

\* The entries stored by the calls so far, as Entry_new builds them.
EntriesOf(stored) ==
    {Entry_new(get_unique_position_key(e.b), e.eval, e.flag, e.depth, e.mv) :
        e \in stored}

AllSound(stored, all) == \A e \in stored : SoundEntry(e, all)

\* C22: every entry the search stores is sound for the position it is
\* stored for: an EXACT entry holds the true game value, a LOWER entry a
\* value not greater than it, an UPPER entry a value not smaller than it,
\* and its depth is the number of stones of that position; the table
\* holds none but stored entries.
C22_EntriesSound ==
    /\ last.op \in {"evaluate", "solve"} =>
           AllSound(explorer.stored, ValuesBelow(last.before).all)
    /\ (last.op \in {"evaluate", "solve"} /\ calls = 1) =>
           TableEntriesHeld(explorer.table) \subseteq EntriesOf(explorer.stored)

\* A call that stored LOWER and UPPER entries on a table that an earlier
\* call had written, with an EXACT entry in the table.
C22_Witness ==
    /\ last.op = "evaluate"
    /\ calls = 2
    /\ \A f \in {FLAG_LOWER, FLAG_UPPER} : \E e \in explorer.stored : e.flag = f
    /\ \E e \in TableEntriesHeld(explorer.table) : e.flag = FLAG_EXACT
    /\ \E e \in TableEntriesHeld(explorer.table) :
           e \notin EntriesOf(explorer.stored)
    /\ AllSound(explorer.stored, ValuesBelow(last.before).all)

\* The call c of search returned a sound fail-soft result.
SoundCall(c, all) ==
    /\ c.a < c.b2
    /\ (c.a < c.val /\ c.val < c.b2) => ValueWithin(all, c.b, c.val, c.val)
    /\ c.val <= c.a => ValueWithin(all, c.b, -44, c.val)
    /\ c.val >= c.b2 => ValueWithin(all, c.b, c.val, 44)

AllCalls(searched, all) == \A c \in searched : SoundCall(c, all)

\* C23: every call search(P, a, b), of evaluate_board or of search itself,
\* has a < b and returns r with: r the true value of P if a < r < b, the
\* true value at most r if r <= a, and at least r if r >= b.
C23_SearchFailSoft ==
    last.op \in {"evaluate", "solve"} =>
        AllCalls(explorer.searched, ValuesBelow(last.before).all)

\* The early returns.  The side to move can win at once (at the root
\* alone: no move that is searched leaves a win); every move loses at
\* once; the window closes after the two bounds were tightened; the table
\* decides.
WinsAtOnce(b) == \E s \in Successors(b) : HasLine(s.board)
LosesAtOnce(b) == \A s \in Successors(b) : WinsAtOnce(s)
WindowCut(c) ==
    LET played == Cardinality(c.b.total_board)
    IN  Max(c.a, -(44 - (played + 3))) >= Min(c.b2, 44 - (played + 2))

C23_Witness ==
    /\ last.op = "evaluate"
    /\ \E c \in explorer.searched :
           ~Full(c.b) /\ ~WinsAtOnce(c.b) /\ LosesAtOnce(c.b)
    /\ \E c \in explorer.searched :
           ~Full(c.b) /\ ~WinsAtOnce(c.b) /\ ~LosesAtOnce(c.b) /\ WindowCut(c)
    /\ \E c \in explorer.searched : c.val <= c.a
    /\ \E c \in explorer.searched : c.val >= c.b2
    /\ \E c \in explorer.searched : c.a < c.val /\ c.val < c.b2

\* The table decides the root: the second call searches one node of a
\* position that passes the other checks.
C23_TableCut ==
    /\ last.op = "evaluate"
    /\ calls = 2
    /\ last.searched = 1
    /\ \A c \in explorer.searched :
           ~Full(c.b) /\ ~WinsAtOnce(c.b) /\ ~LosesAtOnce(c.b) /\ ~WindowCut(c)

\* C28: no entry is stored for a position in which the side to move can
\* win at once or in which every move loses at once: a call of search on
\* such a position returns the win or the loss and stores nothing, so
\* every entry stored belongs to a position that passed both checks.
C28_NoEntryAtEndgame ==
    /\ \A e \in explorer.stored :
           ~Full(e.b) /\ ~WinsAtOnce(e.b) /\ ~LosesAtOnce(e.b)
    /\ \A c \in explorer.searched :
           /\ (~Full(c.b) /\ WinsAtOnce(c.b)) =>
                  c.val = 44 - (Cardinality(c.b.total_board) + 1)
           /\ (~Full(c.b) /\ ~WinsAtOnce(c.b) /\ LosesAtOnce(c.b)) =>
                  c.val = -(44 - (Cardinality(c.b.total_board) + 2))

\* A call that stored entries and searched a position where every move
\* loses at once.
C28_Witness ==
    /\ last.op = "evaluate"
    /\ explorer.stored # {}
    /\ \E c \in explorer.searched :
           /\ ~Full(c.b) /\ ~WinsAtOnce(c.b) /\ LosesAtOnce(c.b)
           /\ c.val = -(44 - (Cardinality(c.b.total_board) + 2))
           /\ \A e \in explorer.stored : e.b # c.b

\* evaluate on a position the side to move wins at once: one node, and
\* nothing stored.
C28_WinAtRoot ==
    /\ last.op = "evaluate"
    /\ ~Terminal(last.before)
    /\ WinsAtOnce(last.before)
    /\ last.searched = 1
    /\ explorer.stored = {}

\* The columns of the non-losing moves of a board, in the order the
\* threat counts alone give them.
OrderByScore(b) ==
    LET mvs == Moves(non_losing_moves(b, possible_moves(b)))
        ms == next_moves_by_score(b, mvs, Len(mvs), EMPTY_MOVE)
    IN  [k \in 1 .. Len(ms) |-> ms[k].col]

\* The child of board b in column col.
ChildIn(b, col) == play(b, col_to_pos(possible_moves(b), col))

\* C30: a node that took a refutation move from a LOWER entry of the
\* table, the move being one of its non-losing moves, searches this move
\* first and with the full window (-b, -a), whatever the threat counts of
\* the other moves; the other moves follow in the order of their scores.
C30_RefutationFirst ==
    \A n \in explorer.expanded :
        LET in_moves == \E k \in 1 .. Len(n.cols) : n.cols[k] = n.refutation
        IN  /\ (n.refutation # EMPTY_MOVE /\ in_moves) =>
                /\ n.cols[1] = n.refutation
                /\ \E c \in explorer.searched :
                       /\ c.b = ChildIn(n.b, n.refutation)
                       /\ c.a = -n.b2
                       /\ c.b2 = -n.a
            /\ (n.refutation = EMPTY_MOVE \/ ~in_moves) => n.cols = OrderByScore(n.b)

\* A node whose refutation move is searched first although the threat
\* counts alone would have put another move first.
C30_Witness ==
    \E n \in explorer.expanded :
        /\ n.refutation # EMPTY_MOVE
        /\ Len(n.cols) > 1
        /\ n.cols[1] = n.refutation
        /\ OrderByScore(n.b)[1] # n.refutation

\* ------------------------------------------- the aspiration loop alone
\* The loop of evaluate_board taken one iteration at a time, its search
\* returning any i8: last holds g_min, g_max, min and max as the
\* iteration left them, the window of its search and where the value fell
\* (below, inside or above), the bounds before it (was), and how often
\* the loop failed low and high.
I8_MAX == 127
MaxProbes == 16

AspirationStarts == {<<LINE_ENDGAME_3, k>> : k \in 0 .. ASPIRATION_MOVES}

InitAspiration ==
    /\ InitFrom(AspirationStarts)
    /\ other = NewBoard

\* evaluate_board up to the loop: the game is not over and at most 15
\* moves were played.
EnterLoop ==
    /\ last.op = "none"
    /\ ~has_winner(board) /\ ~is_filled(board)
    /\ moves_played(board) <= ASPIRATION_MOVES
    /\ last' = [op |-> "loop", returned |-> FALSE, iters |-> 0,
                g_min |-> start_min_of(board), g_max |-> start_max_of(board),
                min |-> start_min_of(board), max |-> start_min_of(board) + LOW_SZ,
                asp_min |-> 0, asp_max |-> 0, fell |-> "none",
                was |-> [g_min |-> start_min_of(board), g_max |-> start_max_of(board)],
                lows |-> 0, highs |-> 0]
    /\ UNCHANGED <<board, other, stack, explorer, placed, adds, calls, text,
                   scored_moves, added>>

\* One iteration of the loop, its search returning eval.
Probe(eval) ==
    /\ last.op = "loop"
    /\ ~last.returned
    /\ last.iters < MaxProbes
    /\ LET asp_min == Max(last.min - 1, last.g_min - 1)
           asp_max == Min(last.max + 1, last.g_max + 1)
           n == aspiration_bounds(last.g_min, last.g_max, last.min, last.max, eval)
       IN  last' = [op |-> "loop", returned |-> n.returned, iters |-> last.iters + 1,
                    g_min |-> n.g_min, g_max |-> n.g_max,
                    min |-> n.min, max |-> n.max,
                    asp_min |-> asp_min, asp_max |-> asp_max,
                    fell |-> IF eval <= asp_min THEN "below"
                             ELSE IF eval >= asp_max THEN "above" ELSE "inside",
                    was |-> [g_min |-> last.g_min, g_max |-> last.g_max],
                    lows |-> last.lows + (IF eval <= asp_min THEN 1 ELSE 0),
                    highs |-> last.highs + (IF eval >= asp_max THEN 1 ELSE 0)]
    /\ UNCHANGED <<board, other, stack, explorer, placed, adds, calls, text,
                   scored_moves, added>>

NextAspiration ==
    \/ EnterLoop
    \/ \E eval \in I8_MIN .. I8_MAX : Probe(eval)

SpecAspiration == InitAspiration /\ [][NextAspiration]_vars

InI8(x) == I8_MIN <= x /\ x <= I8_MAX

\* C25: the aspiration loop ends whatever its searches return. An
\* iteration whose value is not inside its window lowers g_max and keeps
\* g_min (fail low) or raises g_min and keeps g_max (fail high); the loop
\* goes on only with g_min < g_max, so the number of iterations and the
\* range left never exceed the range at the start, and the loop has
\* returned before MaxProbes iterations; every bound and every window
\* stays within i8.
C25_LoopEnds ==
    (last.op = "loop") =>
        LET inside == last.fell = "inside"
            range == start_max_of(board) - start_min_of(board)
            left == IF last.returned THEN 0 ELSE last.g_max - last.g_min
        IN  /\ (last.fell = "below") =>
                   last.g_max < last.was.g_max /\ last.g_min = last.was.g_min
            /\ (last.fell = "above") =>
                   last.g_min > last.was.g_min /\ last.g_max = last.was.g_max
            /\ (last.iters > 0) => (last.returned <=> (inside \/ last.g_max <= last.g_min))
            /\ ~last.returned => last.g_min < last.g_max
            /\ last.iters + left <= range
            /\ last.iters < MaxProbes
            /\ \A x \in {last.g_min, last.g_max, last.min, last.max,
                         last.min - 1, last.max + 1, last.g_min - 1, last.g_max + 1,
                         last.asp_min, last.asp_max} : InI8(x)

\* A loop that failed high, failed low and went on, and then returned a
\* value inside its window.
C25_Witness ==
    /\ last.op = "loop"
    /\ last.returned
    /\ last.highs >= 1
    /\ last.lows >= 1
    /\ last.fell = "inside"

\* A loop left because the range collapsed, its last value outside the
\* window.
C25_Collapsed ==
    /\ last.op = "loop"
    /\ last.returned
    /\ last.iters >= 2
    /\ last.g_max <= last.g_min
    /\ last.fell # "inside"

\* C26 as the specification states it: every evaluation, by solve or by
\* evaluate, clears the table before each of its searches.
C26_AsStated ==
    (last.op \in {"solve", "evaluate"}) =>
        \A k \in DOMAIN explorer.probes :
            explorer.probes[k].reset /\ explorer.probes[k].keys = 0

\* C26: solve clears the table before each search of its evaluation, the
\* searches of the aspiration loop and the one search with the full
\* window, so each starts on a table without keys; evaluate clears
\* nothing, and its first search starts on the table as the call before
\* left it. An evaluation of a position where the game goes on makes at
\* least one search, and exactly one when more than 15 moves were played.
C26_SolveClears ==
    /\ (last.op = "solve") =>
           \A k \in DOMAIN explorer.probes :
               explorer.probes[k].reset /\ explorer.probes[k].keys = 0
    /\ (last.op = "evaluate") =>
           \A k \in DOMAIN explorer.probes :
               /\ ~explorer.probes[k].reset
               /\ explorer.probes[k].keys = explorer.probes[k].held
    /\ (last.op \in {"solve", "evaluate"}) =>
           /\ Terminal(last.before) <=> (explorer.probes = <<>>)
           /\ (moves_played(last.before) > ASPIRATION_MOVES) => Len(explorer.probes) <= 1

\* A solve whose search found the keys of an earlier call and took them
\* away.
C26_Witness ==
    /\ last.op = "solve"
    /\ explorer.probes # <<>>
    /\ explorer.probes[1].held > 0
    /\ explorer.probes[1].keys = 0

\* An evaluate whose search started on the keys of an earlier call.
C26_EvaluateKeeps ==
    /\ last.op = "evaluate"
    /\ explorer.probes # <<>>
    /\ ~explorer.probes[1].reset
    /\ explorer.probes[1].keys > 0

\* The boards a line of columns goes through from b, while add succeeds.
RECURSIVE Replay(_, _, _)
Replay(b, cols, k) ==
    IF k > Len(cols) THEN [ok |-> TRUE, b |-> b]
    ELSE LET r == add(b, cols[k])
         IN  IF r.ok THEN Replay(r.b, cols, k + 1) ELSE [ok |-> FALSE, b |-> b]

\* The walk of get_pv and the whole variation after the last solve.
WalkOfLast == pv_walk(explorer.table, last.before, <<>>)
PvOfLast == get_pv(explorer, last.before)

\* What get_pv pushed after the walk w.
TailOf(w, pv) == SubSeq(pv, Len(w.pv) + 1, Len(pv))

\* C29 as the specification states it: after the walk exactly one further
\* column is pushed.
C29_AsStated ==
    (last.op = "solve" /\ ~Terminal(last.before)) =>
        Len(PvOfLast) = Len(WalkOfLast.pv) + 1

\* Column c wins for the side to move on b; column c holds a playable
\* cell that wins for the opponent.
WinsIn(b, c) == can_add(b, c) /\ JustMovedWon(add(b, c).b)
BlocksIn(b, c) ==
    /\ can_add(b, c)
    /\ col_to_pos(opp_win_moves(b, possible_moves(b)), c) # {}

ExpectedTail(b, tail) ==
    LET possible == possible_moves(b)
        wins == player_win_moves(b, possible) # {}
        loses == opp_win_moves(b, possible) # {}
        n_win == IF wins THEN 1 ELSE 0
        n_lose == IF loses THEN 1 ELSE 0
        n_any == IF possible # {} THEN 1 ELSE 0
    IN  /\ Len(tail) = n_win + n_lose + n_any
        /\ wins => WinsIn(b, tail[1])
        /\ loses => BlocksIn(b, tail[n_win + 1])
        /\ (possible # {}) =>
               /\ can_add(b, tail[Len(tail)])
               /\ \A c \in 0 .. (WIDTH - 1) : can_add(b, c) => tail[Len(tail)] <= c

\* C29: the variation get_pv builds after a solve of a position where the
\* game goes on is finite and legal: the walk over the EXACT entries
\* plays legal moves only, from the root to the board where it stops, in
\* no more steps than cells are left; then up to three columns are
\* pushed, in this order: a winning column if the side to move has one, a
\* column where the opponent has a playable winning cell if there is one,
\* and the lowest playable column if the board is not full.
C29_PvWellFormed ==
    (last.op = "solve" /\ ~Terminal(last.before)) =>
        LET w == WalkOfLast
            pv == PvOfLast
            played == Replay(last.before, w.pv, 1)
        IN  /\ played.ok /\ played.b = w.b
            /\ Len(w.pv) <= SIZE - moves_played(last.before)
            /\ Len(pv) <= SIZE
            /\ SubSeq(pv, 1, Len(w.pv)) = w.pv
            /\ ExpectedTail(w.b, TailOf(w, pv))
            /\ last.col = pv[1]

\* A solve whose walk made steps and stopped where the opponent has a
\* playable winning cell: two columns were pushed after the walk.
C29_Witness ==
    /\ last.op = "solve"
    /\ ~Terminal(last.before)
    /\ Len(WalkOfLast.pv) >= 1
    /\ Len(TailOf(WalkOfLast, PvOfLast)) >= 2

\* A solve of a position won at once: no walk, and three columns pushed.
C29_ThreePushed ==
    /\ last.op = "solve"
    /\ ~Terminal(last.before)
    /\ Len(TailOf(WalkOfLast, PvOfLast)) = 3

\* The root of the last solve is a position where the game goes on, the
\* side to move cannot win at once and some move does not lose at once.
SearchedRoot ==
    /\ last.op = "solve"
    /\ ~Terminal(last.before)
    /\ ~WinsAtOnce(last.before)
    /\ ~LosesAtOnce(last.before)

\* The table holds an EXACT entry for the root of the last solve and the
\* column solve returned is its move.
ExactRoot ==
    LET hit == get_exact_entry(explorer.table, last.before)
    IN  hit.found /\ last.col = hit.entry.mv

\* C24 as the specification states it: after every solve of such a
\* position the root has an EXACT entry and solve returns its move.
C24_AsStated == SearchedRoot => ExactRoot

\* C24: after solve has evaluated such a position with more than 15 and
\* fewer than 41 stones, the table holds an EXACT entry for the root and
\* solve returns the move stored in it. With 41 stones the bound
\* -win_eval(moves_played + 3) of search is 0, the value of the draw, so
\* a drawn root fails low: its entry is an UPPER one and solve returns
\* the column get_pv derives from the masks.
C24_ExactRoot ==
    /\ (SearchedRoot /\ moves_played(last.before) > ASPIRATION_MOVES
                     /\ moves_played(last.before) < SIZE - 1) => ExactRoot
    /\ (SearchedRoot /\ moves_played(last.before) = SIZE - 1) =>
           LET hit == get_entry_with_key(explorer.table,
                                         get_unique_position_key(last.before))
           IN  /\ ~get_exact_entry(explorer.table, last.before).found
               /\ hit.found /\ hit.entry.flag = FLAG_UPPER
               /\ last.val = TIE_SCORE
               /\ last.col = pos_to_col(possible_moves(last.before))

\* A solve that returned the move of the EXACT entry of its root, the
\* lowest playable column being another one.
C24_Witness ==
    /\ SearchedRoot
    /\ moves_played(last.before) > ASPIRATION_MOVES
    /\ moves_played(last.before) < SIZE - 1
    /\ ExactRoot
    /\ last.col # pos_to_col(possible_moves(last.before))

\* A solve of a drawn position with one cell left: no EXACT entry.
C24_LastCell ==
    /\ SearchedRoot
    /\ moves_played(last.before) = SIZE - 1
    /\ ~ExactRoot

====
